---------------------------- MODULE Spec2Model ----------------------------
(***************************************************************************)
(* Model of the weekly feature pipeline of the dengue repository:          *)
(*   - get_time_since_switch (src/dengue/features/serology.py): the SQL    *)
(*     dominant-strain resolver and the two Python loops that turn the     *)
(*     resolved dominant strains into the days_since_switch counter;       *)
(*   - the rolling-window feature providers of                             *)
(*     src/dengue/features/climate.py.                                     *)
(*                                                                         *)
(* Dates are day numbers counted from 2019-01-01 (day 0, a Tuesday).       *)
(* SQL arrays are sequences; a SQL NULL array is the empty sequence (an    *)
(* ARRAY_AGG under GROUP BY is never empty, so the two cannot be confused).*)
(* The rows of a query whose last step is a window function ordered by X   *)
(* are taken in the order X, which is the order PostgreSQL's WindowAgg     *)
(* node emits them in.                                                     *)
(***************************************************************************)
EXTENDS Integers, Sequences, FiniteSets, TLC

(***************************************************************************)
(* Bounds of the model.                                                    *)
(***************************************************************************)
\* largest number of distinct dates present in national_analysis.dengue_agg
MaxRows == 4

\* the serotypes reported in dengue_agg.serotype_strain, as character strings
StrainNames == {<<"D", "1">>, <<"D", "2">>, <<"D", "3">>}

\* the weekly counts a serotype can have
Counts == {0, 1}

\* largest window and lag a rolling-window feature provider is called with
MaxWindow == 3

MaxLag == 2

(***************************************************************************)
(* Generic helpers.                                                        *)
(***************************************************************************)
Range(s) == {s[k] : k \in 1..Len(s)}

Max2(a, b) == IF a > b THEN a ELSE b

\* the elements of a finite set of integers as an ascending sequence
RECURSIVE SortedSeq(_)
SortedSeq(S) ==
    IF S = {} THEN <<>>
    ELSE LET m == CHOOSE x \in S : \A y \in S : x <= y
         IN  <<m>> \o SortedSeq(S \ {m})

\* the column f[1], ..., f[n] as a sequence of evaluated values
RECURSIVE ColumnUpTo(_, _)
ColumnUpTo(f, n) == IF n = 0 THEN <<>> ELSE Append(ColumnUpTo(f, n - 1), f[n])

Column(f) == ColumnUpTo(f, Len(f))

(***************************************************************************)
(* SQL numerics: exact rationals <<numerator, denominator>> in lowest      *)
(* terms with a positive denominator.                                      *)
(***************************************************************************)
Abs(n) == IF n < 0 THEN -n ELSE n

RECURSIVE Gcd(_, _)
Gcd(a, b) == IF b = 0 THEN a ELSE Gcd(b, a % b)

Frac(n, d) ==
    LET g == Gcd(Abs(n), d)
    IN  IF n = 0 THEN <<0, 1>> ELSE <<n \div g, d \div g>>

FracInt(n) == <<n, 1>>

FracAdd(a, b) == Frac(a[1] * b[2] + b[1] * a[2], a[2] * b[2])

FracSub(a, b) == Frac(a[1] * b[2] - b[1] * a[2], a[2] * b[2])

FracDivInt(a, n) == Frac(a[1], a[2] * n)

\* SUM of the elements of a sequence of rationals
RECURSIVE FracSum(_)
FracSum(q) ==
    IF q = <<>> THEN <<0, 1>>
    ELSE FracAdd(q[1], FracSum(SubSeq(q, 2, Len(q))))

\* AVG of a non-empty sequence of rationals
FracAvg(q) == FracDivInt(FracSum(q), Len(q))

RECURSIVE IntSum(_)
IntSum(q) == IF q = <<>> THEN 0 ELSE q[1] + IntSum(SubSeq(q, 2, Len(q)))

(***************************************************************************)
(* Calendar: PostgreSQL's EXTRACT(YEAR ...), EXTRACT(WEEK ...),            *)
(* to_char(.., 'IYYY') and to_char(.., 'IW') on a date.                    *)
(***************************************************************************)
IsLeap(y) == (y % 4 = 0 /\ y % 100 # 0) \/ y % 400 = 0

DaysInYear(y) == IF IsLeap(y) THEN 366 ELSE 365

\* day number of 1 January of year y (y >= 2019)
RECURSIVE Jan1(_)
Jan1(y) == IF y <= 2019 THEN 0 ELSE Jan1(y - 1) + DaysInYear(y - 1)

\* EXTRACT(YEAR FROM date): the calendar year
RECURSIVE YearFrom(_, _)
YearFrom(y, d) == IF d < Jan1(y + 1) THEN y ELSE YearFrom(y + 1, d)

ExtractYear(d) == YearFrom(2019, d)

\* ordinal day of the calendar year, 1-based
DayOfYear(d) == d - Jan1(ExtractYear(d)) + 1

\* ISO weekday, Monday = 1 .. Sunday = 7 (day 0 is a Tuesday)
IsoWeekday(d) == ((d + 1) % 7) + 1

\* number of ISO weeks of ISO year y: 53 when 1 January is a Thursday, or a
\* Wednesday in a leap year
WeeksInYear(y) ==
    LET wd == IF y = 2018 THEN 1 ELSE IsoWeekday(Jan1(y))   \* 2018-01-01: Monday
    IN  IF wd = 4 \/ (wd = 3 /\ IsLeap(y)) THEN 53 ELSE 52

\* EXTRACT(WEEK FROM date) and to_char(date, 'IW'): the ISO-8601 week number
ExtractWeek(d) ==
    LET y == ExtractYear(d)
        w == (DayOfYear(d) - IsoWeekday(d) + 10) \div 7
    IN  IF w < 1 THEN WeeksInYear(y - 1)
        ELSE IF w > WeeksInYear(y) THEN 1
        ELSE w

\* to_char(date, 'IYYY'): the ISO week-numbering year
IsoYear(d) ==
    LET y == ExtractYear(d)
        w == (DayOfYear(d) - IsoWeekday(d) + 10) \div 7
    IN  IF w < 1 THEN y - 1
        ELSE IF w > WeeksInYear(y) THEN y + 1
        ELSE y

\* the decimal digits of n >= 0 as a string of the given width, zero-padded
RECURSIVE ZeroPadded(_, _)
ZeroPadded(n, width) ==
    LET
        DigitChar(v) ==
            CASE v = 0 -> "0" [] v = 1 -> "1" [] v = 2 -> "2" [] v = 3 -> "3"
              [] v = 4 -> "4" [] v = 5 -> "5" [] v = 6 -> "6" [] v = 7 -> "7"
              [] v = 8 -> "8" [] v = 9 -> "9"
    IN
    IF width = 0 THEN <<>>
    ELSE Append(ZeroPadded(n \div 10, width - 1), DigitChar(n % 10))

\* to_char(date, 'IYYY') and to_char(date, 'IW'): text columns
ToCharIYYY(d) == ZeroPadded(IsoYear(d), 4)

ToCharIW(d) == ZeroPadded(ExtractWeek(d), 2)

(***************************************************************************)
(* State.                                                                  *)
(***************************************************************************)
VARIABLES
    dengue_agg,            \* rows of national_analysis.dengue_agg
    start_date, end_date,  \* arguments of get_time_since_switch
    pc,                    \* position inside get_time_since_switch
    dom_strain_unaltered,  \* rows of the CTE of that name, in date order
    df,                    \* the DataFrame returned by the query
    i,                     \* position of the running iterrows() loop
    event, dom,            \* locals of the first loop
    switched,              \* column df["switched"]
    counter,               \* locals of the second loop
    time_since_switch,
    result,                \* the returned DataFrame, indexed by (year, week)
    runs,                  \* number of calls of get_time_since_switch so far
    first_switched,        \* the switch flags and the DataFrame of the
    first_result,          \* previous call
    db_up,                 \* whether the database answers the query
    call,                  \* provider called: [fn, window, lag]
    src_table,             \* rows of the {schema}.{table} the provider reads
    cpc,                   \* position inside the provider
    queries,               \* number of queries sent to the storage gateway
    ctes,                  \* series computed inside the query: the input of
                           \* the rolling aggregate and the aggregate itself
    cdf,                   \* what download_dataframe_from_db returned
    creturn,               \* the DataFrame the provider returned
    cerror,                \* the exception the provider raised, or "none"
    acall,                 \* the assembler running: "get" of
                           \* NationalAnalysisTrainData or "get_train_test_data"
    temp_df, sero_df,      \* the frames the providers returned to it
    elnino_df, days_no_rain_df,
    target_df, population_df,
    apc,                   \* position inside the assembler
    adf,                   \* its local df (self.data once it is done)
    ucall,                 \* the call into the storage gateway: [fn, df, ddl_file]
    db_table,              \* rows of the table the insert appends to
    upc,                   \* position inside upsert_dataframe_to_db
    statements,            \* ddl_file split on ";"
    stmt_i,                \* position of the loop over statements
    executed,              \* statements the database ran without error
    to_sql_exc,            \* the exception df.to_sql raised, if any
    ulog,                  \* messages logged or printed so far
    uerror,                \* the exception that reached the caller, or "none"
    wpc,                   \* position inside a with postgres_connection() block
    conn,                  \* the local conn of postgres_connection
    body,                  \* what the with-body does: [uses_db, fails]
    open_conns,            \* database connections open in the pools of the
                           \* engines created so far
    uses,                  \* number of with-blocks entered so far
    printed,               \* what postgres_connection printed
    wraised,               \* whether the error of the body left the with-block
    tclass,                \* the TrainData subclass of the object
    config,                \* the loaded configuration file
    tablename,             \* self.tablename
    self_data,             \* self.data: [set, rows]
    tpc,                   \* last operation completed on the TrainData object
    gateway_calls,         \* the calls upsert_dataframe_to_db was entered with
    terror,                \* the exception the last operation raised, or "none"
    m_attrs,               \* attributes set on the INLAForecastModel_V1 object
    m_table,               \* self.table
    r_names,               \* self.r_instance.names
    train_test,            \* self.train_test: [none, columns, date_parsed]
    m_calls,               \* the methods called on the object, in order
    m_return,              \* what the last method returned
    m_error,               \* the exception the last method raised, or "none"
    date_str,              \* parse_date_with_filename: the text of the date
    filename,              \* the name of the file the date was read from
    ppc,                   \* "call" before the call, "done" after it
    presult,               \* what the call returned or raised
    start_tod, end_tod     \* hour of the day of the datetimes start_date and
                           \* end_date, whose days are the variables above

seroVars == <<dengue_agg, start_date, end_date, pc, dom_strain_unaltered, df,
              i, event, dom, switched, counter, time_since_switch, result>>

rerunVars == <<runs, first_switched, first_result>>

joinVars == <<acall, temp_df, sero_df, elnino_df, days_no_rain_df, target_df,
              population_df, apc, adf>>

storeVars == <<ucall, db_table, upc, statements, stmt_i, executed, to_sql_exc,
               ulog, uerror>>

connVars == <<wpc, conn, body, open_conns, uses, printed, wraised>>

\* the variables of the components specified after the storage gateway
trainVars == <<tclass, config, tablename, self_data, tpc, gateway_calls, terror>>

inlaVars == <<m_attrs, m_table, r_names, train_test, m_calls, m_return, m_error>>

parseVars == <<date_str, filename, ppc, presult>>

\* the time of day of the arguments of get_time_since_switch
todVars == <<start_tod, end_tod>>

extVars == <<connVars, trainVars, inlaVars, parseVars, todVars>>

climateVars == <<db_up, call, src_table, cpc, queries, ctes, cdf, creturn, cerror>>

(***************************************************************************)
(* The query of get_time_since_switch.                                     *)
(***************************************************************************)
\* REPLACE(serotype_strain, 'D', ''): drop every character 'D'
ReplaceD(str) == SelectSeq(str, LAMBDA c : c # "D")

DigitValue(c) ==
    CASE c = "0" -> 0 [] c = "1" -> 1 [] c = "2" -> 2 [] c = "3" -> 3
      [] c = "4" -> 4 [] c = "5" -> 5 [] c = "6" -> 6 [] c = "7" -> 7
      [] c = "8" -> 8 [] c = "9" -> 9

\* CAST(... AS INT) of a string of decimal digits
RECURSIVE CastInt(_)
CastInt(str) ==
    IF str = <<>> THEN 0
    ELSE 10 * CastInt(SubSeq(str, 1, Len(str) - 1)) + DigitValue(str[Len(str)])

\* CTE ranked_serotype: the rows of the date range with the serotype as an
\* integer and rn = RANK() OVER (PARTITION BY date ORDER BY serotype_count DESC)
\* (faulty variant: the end of the range is included)
ranked_serotype_EndIncluded(tbl, sd, ed) ==
    { [date |-> r.date,
       serotype_strain_int |-> CastInt(ReplaceD(r.serotype_strain)),
       rn |-> 1 + Cardinality({q \in tbl : /\ q.date = r.date
                                           /\ q.serotype_count > r.serotype_count})]
      : r \in {q \in tbl : q.date >= sd /\ q.date <= ed} }

ranked_serotype(tbl, sd, ed) ==
    { [date |-> r.date,
       serotype_strain_int |-> CastInt(ReplaceD(r.serotype_strain)),
       rn |-> 1 + Cardinality({q \in tbl : /\ q.date = r.date
                                           /\ q.serotype_count > r.serotype_count})]
      : r \in {q \in tbl : q.date >= sd /\ q.date < ed} }

\* CTE dom_strain_unaltered, one row per date, LAG(...) OVER (ORDER BY date)
dom_strain_unaltered_cte(tbl, sd, ed) ==
    LET
        \* CARDINALITY(array); NULL for a NULL array (modelled as 0: neither the
        \* test "= 1" nor the test "> 1" is true of it)
        SqlCardinality(arr) == Len(arr)
        \* inner sub-select of dom_strain_unaltered:
        \* ARRAY_AGG(serotype_strain_int ORDER BY serotype_strain_int) ... WHERE rn = 1
        \* GROUP BY date
        dominant_strain_curr_week(ranked, d) ==
            SortedSeq({r.serotype_strain_int : r \in {q \in ranked : q.date = d /\ q.rn = 1}})
    IN
    LET ranked == ranked_serotype(tbl, sd, ed)
        dates  == SortedSeq({r.date : r \in {q \in ranked : q.rn = 1}})
        curr(k) == dominant_strain_curr_week(ranked, dates[k])
        lag(k)  == IF k = 1 THEN <<>> ELSE curr(k - 1)
    IN  [k \in 1..Len(dates) |->
            [date |-> dates[k],
             dominant_strain_curr_week |-> curr(k),
             curr_len |-> SqlCardinality(curr(k)),
             dominant_strain_prev_week |-> lag(k),
             prev_len |-> SqlCardinality(lag(k))]]

\* the CASE expression giving dominant_strain_edited (faulty variant: the membership
\* test of the previous week's strain is missing)
dominant_strain_edited_NoMembership(row) ==
    IF row.curr_len = 1 THEN row.dominant_strain_curr_week
    ELSE IF row.curr_len > 1 /\ row.prev_len = 1 THEN row.dominant_strain_prev_week
    ELSE row.dominant_strain_curr_week

dominant_strain_edited(row) ==
    IF row.curr_len = 1 THEN row.dominant_strain_curr_week
    ELSE IF row.curr_len > 1 /\ row.prev_len = 1 THEN
        IF row.dominant_strain_prev_week[1] \in Range(row.dominant_strain_curr_week)
        THEN row.dominant_strain_prev_week
        ELSE row.dominant_strain_curr_week
    ELSE IF row.curr_len > 1 /\ row.prev_len > 1 THEN row.dominant_strain_curr_week
    ELSE row.dominant_strain_curr_week

\* the final SELECT
SwitchQuery(cte) ==
    [k \in 1..Len(cte) |->
        [year |-> ExtractYear(cte[k].date),
         week |-> ExtractWeek(cte[k].date),
         dominant_strain_edited |-> dominant_strain_edited(cte[k])]]

(***************************************************************************)
(* get_time_since_switch, step by step.                                    *)
(***************************************************************************)
\* dom = []: the previous dominant strains before the first row (faulty variant: a
\* real strain as the initial value)
EmptyDom_Strain1 == <<1>>

EmptyDom == <<>>

\* set(dom) != set(row["dominant_strain_edited"]) (faulty variant: a row whose
\* strains are all among the previous ones is not a switch)
SwitchFlag_Subset(prev_dom, row) ==
    ~(Range(row.dominant_strain_edited) \subseteq Range(prev_dom))

SwitchFlag(prev_dom, row) == Range(prev_dom) # Range(row.dominant_strain_edited)

\* if row["switched"]: counter = 0 (faulty variant: the reset is missing)
ResetCounter_NoReset(sw, cnt) == cnt

ResetCounter(sw, cnt) == IF sw THEN 0 ELSE cnt

\* counter += 7  # days (faulty variant: counts weeks)
NextCounter_Weeks(cnt) == cnt + 1

NextCounter(cnt) == cnt + 7

\* the rows of a table holding, for each date of D, one row per serotype with
\* the count f[d][s]
DengueAggRows(D, f) ==
    { [date |-> d, serotype_strain |-> s, serotype_count |-> f[d][s]]
        : d \in D, s \in StrainNames }

\* the sets of dates a table can hold: at most MaxRows of them
DateSubsets ==
    LET
        \* the dates a dengue_agg row can carry:
        \*   731 = 2021-01-01 (Fri, ISO week 53 of ISO year 2020)
        \*   734 = 2021-01-04 (Mon, ISO week 1)    736 = 2021-01-06 (Wed, ISO week 1)
        \*   741 = 2021-01-11 (Mon, ISO week 2)    748 = 2021-01-18 (Mon, ISO week 3)
        DateSet == {731, 734, 736, 741, 748}
    IN
               {X \in SUBSET DateSet : Cardinality(X) <= MaxRows}

InitSero ==
    LET
        EndDates == {749}
        \* the date ranges the function is called with
        StartDates == {731, 734}
    IN
    /\ \E D \in DateSubsets :
         \E f \in [D -> [StrainNames -> Counts]] : dengue_agg = DengueAggRows(D, f)
    /\ start_date \in StartDates
    /\ end_date \in EndDates
    /\ pc = "query"
    /\ dom_strain_unaltered = <<>>
    /\ df = <<>>
    /\ i = 0
    /\ event = <<>>
    /\ dom = <<>>
    /\ switched = <<>>
    /\ counter = 0
    /\ time_since_switch = <<>>
    /\ result = <<>>
    /\ runs = 1
    /\ first_switched = <<>>
    /\ first_result = <<>>

\* start_date.strftime("%Y-%m-%d"): the day of a datetime, without its
\* time of day
strftime_Ymd(day, tod) == day

\* start_time_s, end_time_s; df = download_dataframe_from_db(query);
\* event = []; dom = [] (faulty variant: dom keeps the value the previous
\* call left)
RunQuery_KeepDom ==
    /\ pc = "query"
    /\ dom_strain_unaltered' =
           dom_strain_unaltered_cte(dengue_agg, strftime_Ymd(start_date, start_tod),
                                    strftime_Ymd(end_date, end_tod))
    /\ df' = SwitchQuery(dom_strain_unaltered')
    /\ event' = <<>>
    /\ dom' = dom
    /\ i' = 1
    /\ pc' = "switch_loop"
    /\ UNCHANGED <<extVars, climateVars, rerunVars, joinVars, storeVars, dengue_agg, start_date, end_date, switched, counter,
                   time_since_switch, result>>

RunQuery ==
    /\ pc = "query"
    /\ dom_strain_unaltered' =
           dom_strain_unaltered_cte(dengue_agg, strftime_Ymd(start_date, start_tod),
                                    strftime_Ymd(end_date, end_tod))
    /\ df' = SwitchQuery(dom_strain_unaltered')
    /\ event' = <<>>
    /\ dom' = EmptyDom
    /\ i' = 1
    /\ pc' = "switch_loop"
    /\ UNCHANGED <<extVars, climateVars, rerunVars, joinVars, storeVars, dengue_agg, start_date, end_date, switched, counter,
                   time_since_switch, result>>

\* one iteration of the first loop: compare set(dom) with the row's set
\* (faulty variant: the arrays are compared as lists)
SwitchStep_AsLists ==
    /\ pc = "switch_loop"
    /\ i <= Len(df)
    /\ event' = Append(event, dom # df[i].dominant_strain_edited)
    /\ dom' = df[i].dominant_strain_edited
    /\ i' = i + 1
    /\ UNCHANGED <<extVars, climateVars, rerunVars, joinVars, storeVars, dengue_agg, start_date, end_date, pc, dom_strain_unaltered, df,
                   switched, counter, time_since_switch, result>>

SwitchStep ==
    /\ pc = "switch_loop"
    /\ i <= Len(df)
    /\ event' = Append(event, SwitchFlag(dom, df[i]))
    /\ dom' = df[i].dominant_strain_edited
    /\ i' = i + 1
    /\ UNCHANGED <<extVars, climateVars, rerunVars, joinVars, storeVars, dengue_agg, start_date, end_date, pc, dom_strain_unaltered, df,
                   switched, counter, time_since_switch, result>>

\* df["switched"] = pd.Series(event); counter = 0; time_since_switch = []
SwitchDone ==
    /\ pc = "switch_loop"
    /\ i > Len(df)
    /\ switched' = event
    /\ counter' = 0
    /\ time_since_switch' = <<>>
    /\ i' = 1
    /\ pc' = "counter_loop"
    /\ UNCHANGED <<extVars, climateVars, rerunVars, joinVars, storeVars, dengue_agg, start_date, end_date, dom_strain_unaltered, df,
                   event, dom, result>>

\* one iteration of the second loop: reset on a switch, emit, then add 7 days
\* (faulty variant: the 7 days are added before the value is emitted)
CounterStep_IncrementFirst ==
    /\ pc = "counter_loop"
    /\ i <= Len(df)
    /\ LET c == NextCounter(ResetCounter(switched[i], counter))
       IN  /\ time_since_switch' = Append(time_since_switch, c)
           /\ counter' = c
    /\ i' = i + 1
    /\ UNCHANGED <<extVars, climateVars, rerunVars, joinVars, storeVars, dengue_agg, start_date, end_date, pc, dom_strain_unaltered, df,
                   event, dom, switched, result>>

CounterStep ==
    /\ pc = "counter_loop"
    /\ i <= Len(df)
    /\ LET c == ResetCounter(switched[i], counter)
       IN  /\ time_since_switch' = Append(time_since_switch, c)
           /\ counter' = NextCounter(c)
    /\ i' = i + 1
    /\ UNCHANGED <<extVars, climateVars, rerunVars, joinVars, storeVars, dengue_agg, start_date, end_date, pc, dom_strain_unaltered, df,
                   event, dom, switched, result>>

\* df["days_since_switch"] = ...; set_index(["year", "week"]);
\* return df[["days_since_switch"]]
ReturnResult ==
    /\ pc = "counter_loop"
    /\ i > Len(df)
    /\ result' = [k \in 1..Len(df) |->
                     [year |-> df[k].year, week |-> df[k].week,
                      days_since_switch |-> time_since_switch[k]]]
    /\ pc' = "done"
    /\ UNCHANGED <<extVars, climateVars, rerunVars, joinVars, storeVars, dengue_agg, start_date, end_date, dom_strain_unaltered, df,
                   i, event, dom, switched, counter, time_since_switch>>

NextSero == RunQuery \/ SwitchStep \/ SwitchDone \/ CounterStep \/ ReturnResult

\* the number of calls made in a row on the same table
MaxRuns == 2

\* the caller calls get_time_since_switch again with the same arguments: the
\* new call starts at the top of the function, and whatever the previous call
\* left in its locals is what the new frame would see if it read a local
\* before assigning it
Recall ==
    /\ pc = "done"
    /\ runs < MaxRuns
    /\ runs' = runs + 1
    /\ first_switched' = switched
    /\ first_result' = result
    /\ pc' = "query"
    /\ UNCHANGED <<extVars, climateVars, joinVars, storeVars, dengue_agg, start_date, end_date, dom_strain_unaltered, df,
                   i, event, dom, switched, counter, time_since_switch, result>>

NextRerun == NextSero \/ Recall

(***************************************************************************)
(* SQL pieces shared by the queries of features/climate.py.                *)
(***************************************************************************)
\* text comparison of two digit strings (ORDER BY on a to_char column)
RECURSIVE TextLess(_, _)
TextLess(a, b) ==
    IF a = <<>> THEN b # <<>>
    ELSE IF b = <<>> THEN FALSE
    ELSE IF a[1] = b[1] THEN TextLess(Tail(a), Tail(b))
    ELSE DigitValue(a[1]) < DigitValue(b[1])

RECURSIVE OrderByYearEweek(_)
OrderByYearEweek(K) ==
    LET
        \* ORDER BY year, eweek on keys <<year, eweek>> of text columns
        TextKeyLess(a, b) == TextLess(a[1], b[1]) \/ (a[1] = b[1] /\ TextLess(a[2], b[2]))
    IN
    IF K = {} THEN <<>>
    ELSE LET m == CHOOSE x \in K : \A y \in K : x = y \/ TextKeyLess(x, y)
         IN  <<m>> \o OrderByYearEweek(K \ {m})

\* first row of the frame ROWS BETWEEN (window - 1) PRECEDING AND CURRENT ROW
\* of row k: the frame is cut at the first row of the partition (faulty variant: the
\* frame has window rows before the current one)
FrameStart_OneMore(k, window) == IF k - window < 1 THEN 1 ELSE k - window

FrameStart(k, window) == IF k - (window - 1) < 1 THEN 1 ELSE k - (window - 1)

\* AVG(x) OVER (ORDER BY ... ROWS BETWEEN window - 1 PRECEDING AND CURRENT
\* ROW): mean of the rows of the frame (faulty variant: rows missing before the start
\* of the series count as zeros)
RollingAvg_ZeroPadded(series, window) ==
    Column([k \in 1..Len(series) |->
        FracDivInt(FracSum(SubSeq(series, FrameStart(k, window), k)), window)])

RollingAvg(series, window) ==
    Column([k \in 1..Len(series) |->
        FracAvg(SubSeq(series, FrameStart(k, window), k))])

\* LAG(x, lag, 0) OVER (ORDER BY ...): the value lag rows back, 0 before the
\* first row (faulty variant: the shift is one row short of the fill)
SqlLag_OffByOne(series, lag, default) ==
    Column([k \in 1..Len(series) |-> IF k - lag > 1 THEN series[k - lag] ELSE default])

SqlLag(series, lag, default) ==
    Column([k \in 1..Len(series) |-> IF k - lag >= 1 THEN series[k - lag] ELSE default])

\* the values of column col of the rows of tbl, in date order
ColumnByDate(tbl, col) ==
    LET dates == SortedSeq({r.date : r \in tbl})
    IN  Column([k \in 1..Len(dates) |-> (CHOOSE r \in tbl : r.date = dates[k])[col]])

\* the frame a query returns: a value column named name and rows keyed by
\* the text columns year and eweek
QueryFrame(name, keys, values) ==
    [name |-> name,
     rows |-> Column([k \in 1..Len(keys) |->
                 [year |-> keys[k][1], eweek |-> keys[k][2], value |-> values[k]]])]

\* download_dataframe_from_db returns no DataFrame when the query fails: the
\* re-raised error is caught by postgres_connection's except clause
NoFrame == [name |-> <<>>, rows |-> <<>>, none |-> TRUE]

Download(ok, frame) ==
    IF ok THEN [name |-> frame.name, rows |-> frame.rows, none |-> FALSE]
    ELSE NoFrame

\* df.year.astype(int); df.eweek.astype(int); df.set_index(["year", "eweek"])
IndexByYearEweek(frame) ==
    [name |-> frame.name,
     rows |-> [k \in 1..Len(frame.rows) |->
                 [year |-> CastInt(frame.rows[k].year),
                  eweek |-> CastInt(frame.rows[k].eweek),
                  value |-> frame.rows[k].value]]]

NoReturn == [name |-> <<>>, rows |-> <<>>]

\* the CTEs of a query that has not run
NoCtes == [weekly |-> <<>>, series |-> <<>>, aggregate |-> <<>>]

(***************************************************************************)
(* get_temp_weekly.                                                        *)
(***************************************************************************)
\* if window < 1: raise ValueError (faulty variant: only negative windows rejected)
TempWindowInvalid_Negative(window) == window < 0

\* CTE natl_avg: AVG(dbt_max) per (to_char IYYY, to_char IW), as a series in
\* the order year, eweek together with its keys
TempKeys(tbl) == OrderByYearEweek({<<ToCharIYYY(r.date), ToCharIW(r.date)>> : r \in tbl})

natl_avg(tbl) ==
    LET keys == TempKeys(tbl)
    IN  Column([k \in 1..Len(keys) |->
            LET grp == {r \in tbl : <<ToCharIYYY(r.date), ToCharIW(r.date)>> = keys[k]}
                col == ColumnByDate(grp, "dbt_max")
            IN  FracAvg(Column([j \in 1..Len(col) |-> FracInt(col[j])]))])

\* CTE scaled: temperature_max - AVG(temperature_max) OVER () (faulty
\* variant: the weekly values pass through uncentered)
scaled_Raw(series) == series

scaled(series) ==
    LET avg == FracAvg(series)
    IN  Column([k \in 1..Len(series) |-> FracSub(series[k], avg)])

TempValidate ==
    LET
        TempWindowInvalid(window) == window < 1
    IN
    /\ cpc = "validate"
    /\ call.fn = "get_temp_weekly"
    /\ IF TempWindowInvalid(call.window)
       THEN cpc' = "raised" /\ cerror' = "ValueError"
       ELSE cpc' = "query" /\ cerror' = cerror
    /\ UNCHANGED <<extVars, seroVars, rerunVars, joinVars, storeVars, db_up, call, src_table, queries, ctes, cdf, creturn>>

TempQuery ==
    LET
        \* the final SELECT of get_temp_weekly over the averaged CTE
        TempQueryResult(tbl, averaged, window, lag) ==
            QueryFrame(<<"max_t_scale", window, "wk_avg", lag>>, TempKeys(tbl),
                       SqlLag(averaged, lag, <<0, 1>>))
        \* CTEs scaled and averaged of get_temp_weekly
        TempCtes(tbl, window) ==
            LET weekly   == natl_avg(tbl)
                centered == scaled(weekly)
            IN  [weekly |-> weekly, series |-> centered,
                 aggregate |-> RollingAvg(centered, window)]
    IN
    /\ cpc = "query"
    /\ call.fn = "get_temp_weekly"
    /\ queries' = queries + 1
    /\ ctes' = IF db_up THEN TempCtes(src_table, call.window) ELSE ctes
    /\ cdf' = Download(db_up, TempQueryResult(src_table, ctes'.aggregate,
                                             call.window, call.lag))
    /\ cpc' = "fetched"
    /\ UNCHANGED <<extVars, seroVars, rerunVars, joinVars, storeVars, db_up, call, src_table, creturn, cerror>>

TempReturn ==
    /\ cpc = "fetched"
    /\ call.fn = "get_temp_weekly"
    /\ IF cdf.none
       THEN cpc' = "raised" /\ cerror' = "AttributeError" /\ creturn' = creturn
       ELSE cpc' = "returned" /\ cerror' = cerror /\ creturn' = IndexByYearEweek(cdf)
    /\ UNCHANGED <<extVars, seroVars, rerunVars, joinVars, storeVars, db_up, call, src_table, queries, ctes, cdf>>

(***************************************************************************)
(* get_elnino34_ssta_weekly.                                               *)
(***************************************************************************)
\* if window < 1: raise ValueError (faulty variant: only negative windows rejected)
NinoWindowInvalid_Negative(window) == window < 0

\* the rows of the averaged CTE keyed by (to_char IYYY, to_char IW), in the
\* order year, eweek (the weekly rows fall in distinct ISO weeks, so this is
\* also their date order)
NinoKeys(tbl) == OrderByYearEweek({<<ToCharIYYY(r.date), ToCharIW(r.date)>> : r \in tbl})

NinoValidate ==
    LET
        NinoWindowInvalid(window) == window < 1
    IN
    /\ cpc = "validate"
    /\ call.fn = "get_elnino34_ssta_weekly"
    /\ IF NinoWindowInvalid(call.window)
       THEN cpc' = "raised" /\ cerror' = "ValueError"
       ELSE cpc' = "query" /\ cerror' = cerror
    /\ UNCHANGED <<extVars, seroVars, rerunVars, joinVars, storeVars, db_up, call, src_table, queries, ctes, cdf, creturn>>

NinoQuery ==
    LET
        \* the final SELECT of get_elnino34_ssta_weekly over the averaged CTE
        NinoQueryResult(tbl, averaged, window, lag) ==
            QueryFrame(<<"nino34", window, "wk_avg", lag>>, NinoKeys(tbl),
                       SqlLag(averaged, lag, <<0, 1>>))
        \* CTE averaged: AVG(ssta) OVER (ORDER BY date ROWS BETWEEN window - 1
        \* PRECEDING AND CURRENT ROW) over the rows of the table
        NinoCtes(tbl, window) ==
            LET col  == ColumnByDate(tbl, "ssta")
                ssta == Column([k \in 1..Len(col) |-> FracInt(col[k])])
            IN  [weekly |-> ssta, series |-> ssta, aggregate |-> RollingAvg(ssta, window)]
    IN
    /\ cpc = "query"
    /\ call.fn = "get_elnino34_ssta_weekly"
    /\ queries' = queries + 1
    /\ ctes' = IF db_up THEN NinoCtes(src_table, call.window) ELSE ctes
    /\ cdf' = Download(db_up, NinoQueryResult(src_table, ctes'.aggregate,
                                             call.window, call.lag))
    /\ cpc' = "fetched"
    /\ UNCHANGED <<extVars, seroVars, rerunVars, joinVars, storeVars, db_up, call, src_table, creturn, cerror>>

NinoReturn ==
    /\ cpc = "fetched"
    /\ call.fn = "get_elnino34_ssta_weekly"
    /\ IF cdf.none
       THEN cpc' = "raised" /\ cerror' = "AttributeError" /\ creturn' = creturn
       ELSE cpc' = "returned" /\ cerror' = cerror /\ creturn' = IndexByYearEweek(cdf)
    /\ UNCHANGED <<extVars, seroVars, rerunVars, joinVars, storeVars, db_up, call, src_table, queries, ctes, cdf>>

(***************************************************************************)
(* get_days_no_rain.                                                       *)
(***************************************************************************)
\* if window < 1: raise ValueError (faulty variant: only negative windows rejected)
RainWindowInvalid_Negative(window) == window < 0

RainWindowInvalid(window) == window < 1

\* CTEs natl_rainfall and num_days_no_rain_weekly: per (IYYY::int, IW::int)
\* the number of dates whose summed rainfall is 0, in the order year, eweek
RainKeyOf(d) == <<CastInt(ToCharIYYY(d)), CastInt(ToCharIW(d))>>

RainKeys(tbl) ==
    LET K == {RainKeyOf(r.date) : r \in tbl}
        code(key) == key[1] * 100 + key[2]
        order == SortedSeq({code(key) : key \in K})
    IN  Column([k \in 1..Len(order) |-> CHOOSE key \in K : code(key) = order[k]])

num_days_no_rain_weekly(tbl) ==
    LET keys == RainKeys(tbl)
    IN  Column([k \in 1..Len(keys) |->
            Cardinality({r \in tbl : /\ RainKeyOf(r.date) = keys[k]
                                      /\ r.rainfall_amt_total = 0})])

\* CTE rolling_sum: SUM(days_no_rain) OVER (PARTITION BY year ORDER BY eweek
\* ROWS window - 1 PRECEDING)
rolling_sum(keys, series, window) ==
    Column([k \in 1..Len(series) |->
        LET first == CHOOSE j \in 1..k :
                        /\ keys[j][1] = keys[k][1]
                        /\ \A m \in 1..k : keys[m][1] = keys[k][1] => j <= m
            start == first - 1 + FrameStart(k - first + 1, window)
        IN  IntSum(SubSeq(series, start, k))])

LagSourceColumn(window) == <<"days_no_rain", window, "wk_total">>

RainValidate ==
    /\ cpc = "validate"
    /\ call.fn = "get_days_no_rain"
    /\ IF RainWindowInvalid(call.window)
       THEN cpc' = "raised" /\ cerror' = "ValueError"
       ELSE cpc' = "query" /\ cerror' = cerror
    /\ UNCHANGED <<extVars, seroVars, rerunVars, joinVars, storeVars, db_up, call, src_table, queries, ctes, cdf, creturn>>

RainQuery ==
    LET
        \* the final SELECT of get_days_no_rain over the rolling_sum CTE
        RainQueryResult(tbl, totals, window, lag) ==
            QueryFrame(<<"days_no_rain", window, "wk_total", lag>>, RainKeys(tbl),
                       SqlLag(totals, lag, 0))
        RainCtes(tbl, window) ==
            LET weekly == num_days_no_rain_weekly(tbl)
            IN  [weekly |-> weekly, series |-> weekly,
                 aggregate |-> rolling_sum(RainKeys(tbl), weekly, window)]
        \* the query runs only if every column it reads exists
        RainQueryOk(window) ==
            LET
                \* the name rolling_sum gives its total, and the name the final SELECT reads
                RollingSumColumn == <<"days_no_rain", 12, "wk_total">>
            IN
                               LagSourceColumn(window) = RollingSumColumn
    IN
    /\ cpc = "query"
    /\ call.fn = "get_days_no_rain"
    /\ queries' = queries + 1
    /\ ctes' = IF db_up /\ RainQueryOk(call.window)
               THEN RainCtes(src_table, call.window) ELSE ctes
    /\ cdf' = Download(db_up /\ RainQueryOk(call.window),
                       RainQueryResult(src_table, ctes'.aggregate,
                                       call.window, call.lag))
    /\ cpc' = "fetched"
    /\ UNCHANGED <<extVars, seroVars, rerunVars, joinVars, storeVars, db_up, call, src_table, creturn, cerror>>

RainReturn ==
    LET
        \* astype(int) on integer columns; df.set_index(["year", "eweek"])
        RainIndexByYearEweek(frame) == [name |-> frame.name, rows |-> frame.rows]
    IN
    /\ cpc = "fetched"
    /\ call.fn = "get_days_no_rain"
    /\ IF cdf.none
       THEN cpc' = "raised" /\ cerror' = "AttributeError" /\ creturn' = creturn
       ELSE cpc' = "returned" /\ cerror' = cerror /\ creturn' = RainIndexByYearEweek(cdf)
    /\ UNCHANGED <<extVars, seroVars, rerunVars, joinVars, storeVars, db_up, call, src_table, queries, ctes, cdf>>

(***************************************************************************)
(* The assemblers: NationalAnalysisTrainData.get and get_train_test_data.  *)
(* A provider frame is a sequence of rows [index, value]; the assembled    *)
(* frame is a sequence of rows that map column names to cells.             *)
(***************************************************************************)
\* the missing marker of a joined column, and a cell holding a value
NaN == [nan |-> TRUE, v |-> 0]

Cell(x) == [nan |-> FALSE, v |-> x]

SeroColumn == "days_since_switch"

NinoColumn == "nino34_12_wk_avg_4"

RainColumn == "days_no_rain_12_wk_total_0"

RECURSIVE Flatten(_)
Flatten(ss) == IF ss = <<>> THEN <<>> ELSE Head(ss) \o Flatten(Tail(ss))

\* the values of the on-columns of a row of the caller
KeyOf(row, on) == [k \in 1..Len(on) |-> row[on[k]]]

\* the rows of other whose index equals the key of row, in other's order
Matches(row, other, on) == SelectSeq(other, LAMBDA r : r.index = KeyOf(row, on))

\* caller.join(other, on=on): a left join of the caller's on-columns against
\* other's index; every row of the caller stays, once per matching row of
\* other, and with the missing marker when there is none (faulty variant: a
\* row without a match takes the row of other at its own position)
LeftJoin_ByPosition(caller, other, on, col) ==
    Flatten([k \in 1..Len(caller) |->
        LET m == Matches(caller[k], other, on)
        IN  IF m = <<>>
            THEN IF k <= Len(other)
                 THEN <<caller[k] @@ (col :> Cell(other[k].value))>>
                 ELSE <<caller[k] @@ (col :> NaN)>>
            ELSE [j \in 1..Len(m) |-> caller[k] @@ (col :> Cell(m[j].value))]])

LeftJoin(caller, other, on, col) ==
    Flatten([k \in 1..Len(caller) |->
        LET m == Matches(caller[k], other, on)
        IN  IF m = <<>>
            THEN <<caller[k] @@ (col :> NaN)>>
            ELSE [j \in 1..Len(m) |-> caller[k] @@ (col :> Cell(m[j].value))]])

\* temp_df.join(a, on=["year", "eweek"]).join(b, ...).join(c, ...).join(d, ...)
\* for the frames named by order
RECURSIVE JoinChain(_, _)
JoinChain(caller, order) ==
    LET
        \* the frame joined under a name, and the column it brings
        JoinedFrame(name) ==
            CASE name = "sero_df"         -> [rows |-> sero_df, col |-> SeroColumn]
              [] name = "elnino_df"       -> [rows |-> elnino_df, col |-> NinoColumn]
              [] name = "days_no_rain_df" -> [rows |-> days_no_rain_df, col |-> RainColumn]
              [] name = "target_df"       -> [rows |-> target_df, col |-> "cases"]
    IN
    IF order = <<>> THEN caller
    ELSE LET f == JoinedFrame(Head(order))
         IN  JoinChain(LeftJoin(caller, f.rows, <<"year", "eweek">>, f.col),
                       Tail(order))

\* the order the assemblers join in
JoinOrder == <<"sero_df", "elnino_df", "days_no_rain_df", "target_df">>

\* .join(population_df, on=["year"]), in NationalAnalysisTrainData.get only
JoinPopulation(fn, joined) ==
    IF fn = "get" THEN LeftJoin(joined, population_df, <<"year">>, "population")
    ELSE joined

\* the whole chain of joins of an assembler, for an order of the four frames
JoinAll(fn, order) ==
    LET
        \* temp_df as the caller of the first join: index levels year, eweek and
        \* its value column
        Caller(frame, col) ==
            [k \in 1..Len(frame) |->
                ("year" :> frame[k].index[1]) @@ ("eweek" :> frame[k].index[2])
                    @@ (col :> Cell(frame[k].value))]
        \* the value columns of the provider frames (default window and lag)
        TempColumn == "max_t_scale_12_wk_avg_0"
    IN
                      JoinPopulation(fn, JoinChain(Caller(temp_df, TempColumn), order))

\* Series.fillna(0)
FillNa(cell) == IF cell.nan THEN Cell(0) ELSE cell

\* df.days_since_switch = df.days_since_switch.fillna(0) (faulty variant:
\* the whole frame is filled)
FillRow_AllColumns(row) ==
    [c \in DOMAIN row |-> IF c \in {"year", "eweek", "date"} THEN row[c]
                          ELSE FillNa(row[c])]

FillRow(row) == [row EXCEPT !["days_since_switch"] = FillNa(@)]

AssembleJoin ==
    /\ apc = "join"
    /\ adf' = JoinAll(acall, JoinOrder)
    /\ apc' = IF acall = "get" THEN "date" ELSE "fill"
    /\ UNCHANGED <<extVars, seroVars, rerunVars, climateVars, storeVars, acall, temp_df, sero_df,
                   elnino_df, days_no_rain_df, target_df, population_df>>

\* df["date"] = pd.to_datetime(...)
AssembleDate ==
    LET
        \* pd.to_datetime(str(year) + str(eweek) + "1", format="%G%V%u"): the Monday
        \* of ISO week eweek of ISO year year, as a day number
        IsoWeekMonday(year, eweek) ==
            LET jan4 == Jan1(year) + 3
            IN  jan4 - (IsoWeekday(jan4) - 1) + 7 * (eweek - 1)
    IN
    /\ apc = "date"
    /\ adf' = [k \in 1..Len(adf) |->
                 adf[k] @@ ("date" :> IsoWeekMonday(adf[k].year, adf[k].eweek))]
    /\ apc' = "fill"
    /\ UNCHANGED <<extVars, seroVars, rerunVars, climateVars, storeVars, acall, temp_df, sero_df,
                   elnino_df, days_no_rain_df, target_df, population_df>>

\* fillna(0) and astype(int) on days_since_switch; self.data = df / return df
AssembleFill ==
    /\ apc = "fill"
    /\ adf' = [k \in 1..Len(adf) |-> FillRow(adf[k])]
    /\ apc' = "done"
    /\ UNCHANGED <<extVars, seroVars, rerunVars, climateVars, storeVars, acall, temp_df, sero_df,
                   elnino_df, days_no_rain_df, target_df, population_df>>

NextAssemble == AssembleJoin \/ AssembleDate \/ AssembleFill

(***************************************************************************)
(* The storage gateway: upsert_dataframe_to_db and insert_data of          *)
(* dengue/utils, and insert_data of scripts/data_injestion/temperature.py. *)
(* A DDL file is a sequence of tokens: words, blanks and ";".              *)
(***************************************************************************)
\* ddl_file=None, a path that cannot be opened, and a file with a text
NoDdlFile == [none |-> TRUE, missing |-> FALSE, text |-> <<>>]

NoException == [cls |-> "none", orig |-> "none"]

\* create_table_query.split(";")
RECURSIVE Split(_)
Split(text) ==
    IF \A k \in 1..Len(text) : text[k] # ";" THEN <<text>>
    ELSE LET k == CHOOSE j \in 1..Len(text) :
                     text[j] = ";" /\ \A m \in 1..(j - 1) : text[m] # ";"
         IN  <<SubSeq(text, 1, k - 1)>> \o Split(SubSeq(text, k + 1, Len(text)))

\* statement.strip()
RECURSIVE Strip(_)
Strip(stmt) ==
    IF stmt = <<>> THEN <<>>
    ELSE IF Head(stmt) = " " THEN Strip(Tail(stmt))
    ELSE IF stmt[Len(stmt)] = " " THEN Strip(SubSeq(stmt, 1, Len(stmt) - 1))
    ELSE stmt

\* connection.execute(text(statement)) fails on a statement the database
\* rejects
StatementFails(stmt) == \E k \in 1..Len(stmt) : stmt[k] = "BAD"

\* the first row of df the table rejects, 0 if it takes them all: key is
\* unique and val is NOT NULL
FirstRejected(rows, tbl) ==
    LET bad == {k \in 1..Len(rows) :
                   \/ rows[k].val = "NULL"
                   \/ \E r \in tbl : r.key = rows[k].key
                   \/ \E j \in 1..(k - 1) : rows[j].key = rows[k].key}
    IN  IF bad = {} THEN 0 ELSE CHOOSE k \in bad : \A j \in bad : k <= j

\* isinstance(exc, handled) for the classes the except clauses name
IsInstance(exc, handled) ==
    CASE handled = "Exception" -> TRUE
      [] handled = "psycopg2.Error" ->
            exc.cls \in {"psycopg2.Error", "psycopg2.OperationalError",
                         "psycopg2.errors.NotNullViolation",
                         "psycopg2.errors.UniqueViolation"}
      [] handled = "psycopg2.errors.UniqueViolation" ->
            exc.cls = "psycopg2.errors.UniqueViolation"

\* the class the first except clause of insert_data names
FirstExcept(fn) ==
    IF fn = "upsert_dataframe_to_db" THEN "psycopg2.Error"
    ELSE "psycopg2.errors.UniqueViolation"

\* the except clauses of insert_data: what is logged and what leaves the
\* function (faulty variant: the clause for Exception raises again)
InsertExcept_Reraise(fn, exc) ==
    IF IsInstance(exc, FirstExcept(fn))
    THEN [log |-> "Duplicate entry found while inserting into %s", raised |-> "none"]
    ELSE [log |-> "Failed to insert data", raised |-> exc.cls]

InsertExcept(fn, exc) ==
    IF IsInstance(exc, FirstExcept(fn))
    THEN [log |-> "Duplicate entry found while inserting into %s", raised |-> "none"]
    ELSE [log |-> "Failed to insert data", raised |-> "none"]

\* upsert_dataframe_to_db up to the loop over the statements: the branch on
\* ddl_file, open() and split(), then engine.begin(); an error of
\* engine.begin() is caught by postgres_connection, which prints it
UpsertStart ==
    /\ upc = "start"
    /\ IF ucall.ddl_file.none
       THEN /\ ulog' = Append(ulog, "Inferring schema from DataFrame")
            /\ upc' = "insert"
            /\ UNCHANGED <<statements, stmt_i, uerror>>
       ELSE IF ucall.ddl_file.missing
       THEN /\ upc' = "raised"
            /\ uerror' = "FileNotFoundError"
            /\ UNCHANGED <<statements, stmt_i, ulog>>
       ELSE /\ statements' = Split(ucall.ddl_file.text)
            /\ stmt_i' = 1
            /\ IF db_up
               THEN upc' = "ddl" /\ ulog' = ulog
               ELSE upc' = "insert" /\ ulog' = Append(ulog, "An error occurred")
            /\ uerror' = uerror
    /\ UNCHANGED <<extVars, seroVars, rerunVars, climateVars, joinVars, ucall, db_table, executed,
                   to_sql_exc>>

\* one iteration of the loop over sql_statements; an error ends the loop
\* and is printed
DdlStep ==
    /\ upc = "ddl"
    /\ stmt_i <= Len(statements)
    /\ LET statement == Strip(statements[stmt_i])
       IN  IF statement = <<>>
           THEN /\ stmt_i' = stmt_i + 1
                /\ UNCHANGED <<upc, executed, ulog>>
           ELSE IF StatementFails(statement)
           THEN /\ ulog' = Append(ulog, "An error occurred while executing SQL")
                /\ upc' = "insert"
                /\ UNCHANGED <<stmt_i, executed>>
           ELSE /\ executed' = Append(executed, statement)
                /\ stmt_i' = stmt_i + 1
                /\ UNCHANGED <<upc, ulog>>
    /\ UNCHANGED <<extVars, seroVars, rerunVars, climateVars, joinVars, ucall, db_table, statements,
                   to_sql_exc, uerror>>

DdlDone ==
    /\ upc = "ddl"
    /\ stmt_i > Len(statements)
    /\ upc' = "insert"
    /\ UNCHANGED <<extVars, seroVars, rerunVars, climateVars, joinVars, ucall, db_table, statements,
                   stmt_i, executed, to_sql_exc, ulog, uerror>>

\* insert_data: df.to_sql inside both try blocks, then return to the caller
InsertData ==
    LET
        \* df.to_sql(table_name, engine, if_exists="append") through a SQLAlchemy
        \* engine: the exception it raises, with the driver's error as orig
        ToSql(rows, tbl, up) ==
            LET k == FirstRejected(rows, tbl)
            IN  IF ~up
                THEN [cls |-> "sqlalchemy.exc.OperationalError",
                      orig |-> "psycopg2.OperationalError"]
                ELSE IF k = 0 THEN NoException
                ELSE IF rows[k].val = "NULL"
                THEN [cls |-> "sqlalchemy.exc.IntegrityError",
                      orig |-> "psycopg2.errors.NotNullViolation"]
                ELSE [cls |-> "sqlalchemy.exc.IntegrityError",
                      orig |-> "psycopg2.errors.UniqueViolation"]
    IN
    /\ upc = "insert"
    /\ to_sql_exc' = ToSql(ucall.df, db_table, db_up)
    /\ IF to_sql_exc' = NoException
       THEN /\ db_table' = db_table \cup {ucall.df[k] : k \in 1..Len(ucall.df)}
            /\ ulog' = Append(ulog, "Data inserted successfully")
            /\ upc' = "returned"
            /\ uerror' = uerror
       ELSE LET handled == InsertExcept(ucall.fn, to_sql_exc')
            IN  /\ db_table' = db_table
                /\ ulog' = Append(ulog, handled.log)
                /\ uerror' = handled.raised
                /\ upc' = IF handled.raised = "none" THEN "returned" ELSE "raised"
    /\ UNCHANGED <<extVars, seroVars, rerunVars, climateVars, joinVars, ucall, statements, stmt_i,
                   executed>>

NextStore == UpsertStart \/ DdlStep \/ DdlDone \/ InsertData

(***************************************************************************)
(* postgres_connection, the context manager of dengue/utils and of         *)
(* scripts/data_injestion/utils, around a with-body.                       *)
(***************************************************************************)
\* the variables of the other components
restOfConn == <<seroVars, rerunVars, climateVars, joinVars, storeVars, trainVars,
                inlaVars, parseVars, todVars>>

\* conn = None; engine = create_engine(...); yield engine. create_engine
\* opens no connection; the body that follows is any body
ConnEnter ==
    /\ wpc = "enter"
    /\ conn' = "None"
    /\ body' \in [uses_db : BOOLEAN, fails : BOOLEAN]
    /\ uses' = uses + 1
    /\ wpc' = "body"
    /\ UNCHANGED <<restOfConn, open_conns, printed, wraised>>

\* the with-body: a body that reaches the database makes the engine's pool
\* open a connection, which goes back to the pool, still open, when the
\* body is done with it; an error of the body is thrown into the generator
\* at its yield
ConnBody ==
    LET
        \* the body fails if it is a failing body or it needs a database that does
        \* not answer
        BodyRaises(b, up) == b.fails \/ (b.uses_db /\ ~up)
    IN
    /\ wpc = "body"
    /\ open_conns' = IF body.uses_db /\ db_up THEN open_conns + 1 ELSE open_conns
    /\ wpc' = IF BodyRaises(body, db_up) THEN "except" ELSE "finally"
    /\ UNCHANGED <<restOfConn, conn, body, uses, printed, wraised>>

\* except Exception as e: print(...); if conn is not None: conn.rollback().
\* The error is not raised again, so the with statement suppresses it
ConnExcept ==
    /\ wpc = "except"
    /\ printed' = Append(printed, "An error occurred")
    /\ wpc' = "finally"
    /\ wraised' = FALSE
    /\ UNCHANGED <<restOfConn, conn, body, uses, open_conns>>

\* finally: if conn is not None: conn.close()
ConnFinally ==
    /\ wpc = "finally"
    /\ open_conns' = IF conn # "None" THEN open_conns - 1 ELSE open_conns
    /\ wpc' = "after"
    /\ UNCHANGED <<restOfConn, conn, body, uses, printed, wraised>>

\* once the block is over nothing refers to the engine any more: the
\* interpreter may finalise it at any later point, which closes the
\* connections of its pool
ConnCollect ==
    /\ wpc = "after"
    /\ open_conns > 0
    /\ open_conns' = 0
    /\ UNCHANGED <<restOfConn, wpc, conn, body, uses, printed, wraised>>

\* the number of with-blocks a caller runs in a row
MaxUses == 3

\* the caller enters another with postgres_connection() block
ConnAgain ==
    /\ wpc = "after"
    /\ uses < MaxUses
    /\ wpc' = "enter"
    /\ UNCHANGED <<restOfConn, conn, body, uses, open_conns, printed, wraised>>

NextConn ==
    ConnEnter \/ ConnBody \/ ConnExcept \/ ConnFinally \/ ConnCollect \/ ConnAgain

(***************************************************************************)
(* TrainData: __post_init__, get and upload_to_dwh.                        *)
(***************************************************************************)
restOfTrain == <<seroVars, rerunVars, climateVars, joinVars, storeVars, connVars,
                 inlaVars, parseVars, todVars>>

\* the sequences of at most n elements of S
SeqsUpTo(S, n) == UNION {[1..k -> S] : k \in 0..n}

\* the tables a get() can leave in self.data
MaxTrainRows == 2

\* self.tablename = self.config["dataset"]
TrainConstruct ==
    /\ tpc = "new"
    /\ tablename' = config.dataset
    /\ tpc' = "constructed"
    /\ UNCHANGED <<restOfTrain, tclass, config, self_data, gateway_calls, terror>>

\* get(): NationalAnalysisTrainData.get stops at the first provider whose
\* query fails (the provider then reads a column of None); any other
\* subclass stores the table it retrieved
TrainGet ==
    LET
        TrainFrames == SeqsUpTo({"row_a", "row_b", "row_c"}, MaxTrainRows)
        \* get_time_since_switch(self.start_time, self.end_time): the two values are
        \* written into timestamp literals
        SeroCallOk(cfg) ==
            LET
                DateStrings == {"2020-01-01", "2023-12-31"}
            IN
                           cfg.start_time \in DateStrings /\ cfg.end_time \in DateStrings
        \* get_temp_weekly(self.start_time, self.end_time): the two values are bound
        \* to schema and table, and the query reads FROM {schema}.{table}
        TempCallOk(cfg) ==
            LET
                \* the schema-qualified table get_temp_weekly can read, and the values a
                \* timestamp literal can be built from
                ProviderTables == {<<"national_analysis", "temperature">>}
            IN
                           <<cfg.start_time, cfg.end_time>> \in ProviderTables
    IN
    /\ tpc = "constructed"
    /\ IF tclass = "NationalAnalysisTrainData" /\ ~(TempCallOk(config) /\ SeroCallOk(config))
       THEN /\ terror' = "AttributeError"
            /\ tpc' = "get_raised"
            /\ self_data' = self_data
       ELSE /\ \E rows \in TrainFrames : self_data' = [set |-> TRUE, rows |-> rows]
            /\ tpc' = "got"
            /\ terror' = terror
    /\ UNCHANGED <<restOfTrain, tclass, config, tablename, gateway_calls>>

\* upload_to_dwh(): upsert_dataframe_to_db(self.data, ddl_file=None,
\* table_name=self.tablename); the arguments are evaluated, then bound to
\* the parameters, and only then is the function entered
TrainUpload ==
    LET
        UploadArguments == {"df", "ddl_file", "table_name"}
        \* the parameters of upsert_dataframe_to_db that have no default, and the
        \* ones the call in upload_to_dwh binds
        RequiredParameters == {"df", "ddl_file", "table_name", "connection_params_path"}
    IN
    /\ tpc \in {"got", "get_raised"}
    /\ IF ~self_data.set
       THEN /\ terror' = "AttributeError"
            /\ tpc' = "upload_raised"
            /\ gateway_calls' = gateway_calls
       ELSE IF ~(RequiredParameters \subseteq UploadArguments)
       THEN /\ terror' = "TypeError"
            /\ tpc' = "upload_raised"
            /\ gateway_calls' = gateway_calls
       ELSE /\ gateway_calls' = Append(gateway_calls,
                                     [df |-> self_data.rows, table_name |-> tablename])
            /\ tpc' = "uploaded"
            /\ terror' = "none"
    /\ UNCHANGED <<restOfTrain, tclass, config, tablename, self_data>>

NextTrain == TrainConstruct \/ TrainGet \/ TrainUpload

(***************************************************************************)
(* INLAForecastModel_V1: __post_init__, transform, fit, get_fitted_values  *)
(* and get_model_metrics.  The R side (model.R) is an opaque engine:       *)
(* fit(dataset) gives a fitted model that predictions and metrics can be   *)
(* read from.                                                              *)
(***************************************************************************)
restOfInla == <<seroVars, rerunVars, climateVars, joinVars, storeVars, connVars,
                trainVars, parseVars, todVars>>

\* the number of method calls made on one model object
MaxCalls == 3

\* with open(config_file): config = safe_load(file); self.table =
\* config["dataset"]; self.r_instance = inla_forecast_model(config_file).
\* tablename, train_test, preds and metrics are field(init=False) without
\* a default: no such attribute exists on the new object
\* the R engine behind the wrapper, as an interface: the names of the
\* instances a call can return.  The constructor gives an instance holding
\* its configuration, transform adds the data, fit adds what the engine
\* records; which of the names the wrapper looks for a fit records is the
\* engine's own matter
inla_forecast_model(method, names) ==
    IF method = "new" THEN {{"config"}}
    ELSE IF method = "transform" THEN {names \cup {"data"}}
    ELSE {names \cup F :
            F \in SUBSET {"fitted_values", "model_statistics", "metrics"}}

InlaConstruct ==
    /\ m_attrs = {}
    /\ \E dataset \in {"inla_model_ds", "site_release"} : m_table' = dataset
    /\ m_attrs' = {"config_file", "config", "table", "r_instance"}
    /\ r_names' \in inla_forecast_model("new", {})
    /\ UNCHANGED <<restOfInla, train_test, m_calls, m_return, m_error>>

\* a method can be called on a constructed object
CanCall == m_attrs # {} /\ Len(m_calls) < MaxCalls

\* transform(): the query text reads self.tablename before anything else;
\* download_dataframe_from_db gives None when the query fails inside
\* postgres_connection, and None has no to_csv
InlaTransform ==
    LET
        \* the columns of the dataset tables
        DatasetColumns == {"date", "year", "eweek", "cases_actual"}
    IN
    /\ CanCall
    /\ m_calls' = Append(m_calls, "transform")
    /\ m_return' = "none"
    /\ IF "tablename" \notin m_attrs
       THEN /\ m_error' = "AttributeError"
            /\ UNCHANGED <<m_attrs, train_test, r_names>>
       ELSE IF ~db_up
       THEN /\ m_error' = "AttributeError"
            /\ m_attrs' = m_attrs \cup {"train_test"}
            /\ train_test' = [none |-> TRUE, columns |-> {},
                              date_parsed |-> FALSE]
            /\ UNCHANGED r_names
       ELSE /\ m_error' = "none"
            /\ m_attrs' = m_attrs \cup {"train_test"}
            /\ train_test' = [none |-> FALSE, columns |-> DatasetColumns,
                              date_parsed |-> FALSE]
            /\ r_names' \in inla_forecast_model("transform", r_names)
    /\ UNCHANGED <<restOfInla, m_table>>

\* fit(): self.r_instance = fit_method(self.r_instance), or the error of
\* the engine
InlaFit ==
    /\ CanCall
    /\ m_calls' = Append(m_calls, "fit")
    /\ m_return' = "none"
    /\ \/ /\ r_names' \in inla_forecast_model("fit", r_names)
          /\ m_error' = "none"
       \/ /\ r_names' = r_names
          /\ m_error' = "RRuntimeError"
    /\ UNCHANGED <<restOfInla, m_attrs, m_table, train_test>>

\* get_fitted_values(): with "fitted_values" among the names, self.preds
\* is set first, then self.train_test is read (assign returns a new frame
\* that is dropped) and its date column converted in place
InlaGetFittedValues ==
    /\ CanCall
    /\ m_calls' = Append(m_calls, "get_fitted_values")
    /\ IF "fitted_values" \in r_names
       THEN /\ m_attrs' = m_attrs \cup {"preds"}
            /\ IF "train_test" \notin m_attrs \/ train_test.none
               THEN /\ m_error' = "AttributeError"
                    /\ m_return' = "none"
                    /\ UNCHANGED train_test
               ELSE IF "date" \notin train_test.columns
               THEN /\ m_error' = "KeyError"
                    /\ m_return' = "none"
                    /\ UNCHANGED train_test
               ELSE /\ m_error' = "none"
                    /\ m_return' = "preds"
                    /\ train_test' = [train_test EXCEPT !.date_parsed = TRUE]
       ELSE /\ m_error' = "none"
            /\ m_return' = "None"
            /\ UNCHANGED <<m_attrs, train_test>>
    /\ UNCHANGED <<restOfInla, m_table, r_names>>

\* get_model_metrics(): with "model_statistics" among the names it reads
\* the element "metrics", then cases_actual and cases_predicted of
\* self.train_test
InlaGetModelMetrics ==
    /\ CanCall
    /\ m_calls' = Append(m_calls, "get_model_metrics")
    /\ IF "model_statistics" \in r_names
       THEN IF "metrics" \notin r_names
            THEN /\ m_error' = "TypeError"
                 /\ m_return' = "none"
                 /\ UNCHANGED m_attrs
            ELSE IF "train_test" \notin m_attrs
            THEN /\ m_error' = "AttributeError"
                 /\ m_return' = "none"
                 /\ UNCHANGED m_attrs
            ELSE IF train_test.none
            THEN /\ m_error' = "TypeError"
                 /\ m_return' = "none"
                 /\ UNCHANGED m_attrs
            ELSE IF ~({"cases_actual", "cases_predicted"}
                          \subseteq train_test.columns)
            THEN /\ m_error' = "KeyError"
                 /\ m_return' = "none"
                 /\ UNCHANGED m_attrs
            ELSE /\ m_error' = "none"
                 /\ m_return' = "metrics_df"
                 /\ m_attrs' = m_attrs \cup {"metrics"}
       ELSE /\ m_error' = "none"
            /\ m_return' = "None"
            /\ UNCHANGED m_attrs
    /\ UNCHANGED <<restOfInla, m_table, r_names, train_test>>

NextInla ==
    \/ InlaConstruct
    \/ InlaTransform
    \/ InlaFit
    \/ InlaGetFittedValues
    \/ InlaGetModelMetrics

(***************************************************************************)
(* parse_date_with_filename of dengue/utils and of                         *)
(* scripts/data_injestion/utils.  Texts are sequences of characters.       *)
(***************************************************************************)

DigitChars == <<"0", "1", "2", "3", "4", "5", "6", "7", "8", "9">>

IsDigit(c) == \E n \in 1..Len(DigitChars) : DigitChars[n] = c

AllDigits(s) == \A k \in 1..Len(s) : IsDigit(s[k])

\* int(s) of a text of digits
RECURSIVE Num(_)
Num(s) ==
    LET
        DigitVal(c) == (CHOOSE n \in 1..Len(DigitChars) : DigitChars[n] = c) - 1
    IN
    IF s = <<>> THEN 0
    ELSE 10 * Num(SubSeq(s, 1, Len(s) - 1)) + DigitVal(s[Len(s)])

\* n written with w digits, zero-padded
RECURSIVE Pad(_, _)
Pad(n, w) ==
    IF w = 0 THEN <<>>
    ELSE Pad(n \div 10, w - 1) \o <<DigitChars[(n % 10) + 1]>>

\* pandas.NaT and the Timestamp of a calendar day
NaT == [year |-> 0, month |-> 0, day |-> 0]

DaysIn(y, m) ==
    IF m = 2 THEN (IF IsLeap(y) THEN 29 ELSE 28)
    ELSE IF m \in {4, 6, 9, 11} THEN 30 ELSE 31

\* the days a Timestamp (nanoseconds in 64 bits) can hold
IsCalendarDay(y, m, d) ==
    /\ y \in 1678..2261
    /\ m \in 1..12
    /\ d \in 1..DaysIn(y, m)

\* re.search(r"(\d{8})-(\d{8})", filename): the leftmost match, as
\* [found, g1, g2]
GroupsAt(s, p) ==
    /\ p + 16 <= Len(s)
    /\ AllDigits(SubSeq(s, p, p + 7))
    /\ s[p + 8] = "-"
    /\ AllDigits(SubSeq(s, p + 9, p + 16))

re_search(s) ==
    IF \E p \in 1..Len(s) : GroupsAt(s, p)
    THEN LET p == CHOOSE k \in 1..Len(s) :
                      GroupsAt(s, k) /\ \A j \in 1..(k - 1) : ~GroupsAt(s, j)
         IN [found |-> TRUE, g1 |-> SubSeq(s, p, p + 7),
             g2 |-> SubSeq(s, p + 9, p + 16)]
    ELSE [found |-> FALSE, g1 |-> <<>>, g2 |-> <<>>]

\* the three fields of a text with two "/", else <<>>
SlashFields(s) ==
    LET P == {k \in 1..Len(s) : s[k] = "/"}
    IN IF Cardinality(P) # 2 THEN <<>>
       ELSE LET p == CHOOSE k \in P : \A j \in P : k <= j
                q == CHOOSE k \in P : \A h \in P : h <= k
            IN <<SubSeq(s, 1, p - 1), SubSeq(s, p + 1, q - 1),
                 SubSeq(s, q + 1, Len(s))>>

\* try: pd.to_datetime(date_str, format=...) except ValueError: pd.NaT,
\* for the formats "%d/%m/%Y" (day_first) and "%m/%d/%Y"
to_datetime_or_NaT(s, day_first) ==
    LET f == SlashFields(s)
    IN IF f = <<>> THEN NaT
       ELSE IF ~(/\ Len(f[1]) \in 1..2 /\ Len(f[2]) \in 1..2 /\ Len(f[3]) = 4
                 /\ AllDigits(f[1]) /\ AllDigits(f[2]) /\ AllDigits(f[3]))
       THEN NaT
       ELSE LET y == Num(f[3])
                m == IF day_first THEN Num(f[2]) ELSE Num(f[1])
                d == IF day_first THEN Num(f[1]) ELSE Num(f[2])
            IN IF IsCalendarDay(y, m, d)
               THEN [year |-> y, month |-> m, day |-> d]
               ELSE NaT

ParseCall ==
    LET
        \* what a call gives: the text of a date, <<"NaT">>, or <<"ValueError">>
        \* when it raises
        parse_date_with_filename(s, name) ==
            LET
                \* ts.strftime("%Y-%m-%d")
                strftime(ts) ==
                    Pad(ts.year, 4) \o <<"-">> \o Pad(ts.month, 2) \o <<"-">> \o Pad(ts.day, 2)
                \* pd.notna(d) and start_date <= d <= end_date
                InFileRange(start, d, end) ==
                    LET
                        \* a <= b on Timestamps
                        TsLeq(a, b) ==
                            \/ a.year < b.year
                            \/ a.year = b.year /\ a.month < b.month
                            \/ a.year = b.year /\ a.month = b.month /\ a.day <= b.day
                    IN
                                              d # NaT /\ TsLeq(start, d) /\ TsLeq(d, end)
                \* pd.to_datetime(group, format="%Y%m%d") as [ok, ts]; ok is FALSE for
                \* the ValueError of a group that is no calendar day
                to_datetime_Ymd(g) ==
                    LET y == Num(SubSeq(g, 1, 4))
                        m == Num(SubSeq(g, 5, 6))
                        d == Num(SubSeq(g, 7, 8))
                    IN IF IsCalendarDay(y, m, d)
                       THEN [ok |-> TRUE, ts |-> [year |-> y, month |-> m, day |-> d]]
                       ELSE [ok |-> FALSE, ts |-> NaT]
            IN
            LET match == re_search(name)
            IN IF match.found
               THEN LET file_start == to_datetime_Ymd(match.g1)
                        file_end == to_datetime_Ymd(match.g2)
                        date_dmy == to_datetime_or_NaT(s, TRUE)
                        date_mdy == to_datetime_or_NaT(s, FALSE)
                    IN IF ~file_start.ok \/ ~file_end.ok THEN <<"ValueError">>
                       ELSE IF InFileRange(file_start.ts, date_dmy, file_end.ts)
                       THEN strftime(date_dmy)
                       ELSE IF InFileRange(file_start.ts, date_mdy, file_end.ts)
                       THEN strftime(date_mdy)
                       ELSE <<"NaT">>
               ELSE <<"NaT">>
        restOfParse == <<seroVars, rerunVars, climateVars, joinVars, storeVars, connVars,
                         trainVars, inlaVars, todVars>>
    IN
    /\ ppc = "call"
    /\ presult' = parse_date_with_filename(date_str, filename)
    /\ ppc' = "done"
    /\ UNCHANGED <<restOfParse, date_str, filename>>

NextParse == ParseCall

(***************************************************************************)
(* Specifications.                                                         *)
(***************************************************************************)

\* no provider is running
IdleClimate ==
    /\ call = [fn |-> "none", window |-> 0, lag |-> 0]
    /\ src_table = {}
    /\ cpc = "idle"
    /\ queries = 0
    /\ ctes = NoCtes
    /\ cdf = NoFrame
    /\ creturn = NoReturn
    /\ cerror = "none"

\* no with postgres_connection() block has been entered
IdleConn ==
    /\ wpc = "idle"
    /\ conn = "None"
    /\ body = [uses_db |-> FALSE, fails |-> FALSE]
    /\ open_conns = 0
    /\ uses = 0
    /\ printed = <<>>
    /\ wraised = FALSE

\* no TrainData object exists
IdleTrain ==
    /\ tclass = "none"
    /\ config = [dataset |-> "none", start_time |-> "none", end_time |-> "none"]
    /\ tablename = "none"
    /\ self_data = [set |-> FALSE, rows |-> <<>>]
    /\ tpc = "idle"
    /\ gateway_calls = <<>>
    /\ terror = "none"

\* no INLAForecastModel_V1 object exists
IdleInla ==
    LET
        \* a train_test that was never assigned
        NoTrainTest == [none |-> FALSE, columns |-> {}, date_parsed |-> FALSE]
    IN
    /\ m_attrs = {}
    /\ m_table = "none"
    /\ r_names = {}
    /\ train_test = NoTrainTest
    /\ m_calls = <<>>
    /\ m_return = "none"
    /\ m_error = "none"

\* parse_date_with_filename is not being called
IdleParse ==
    /\ date_str = <<>>
    /\ filename = <<>>
    /\ ppc = "idle"
    /\ presult = <<>>

\* start_date and end_date are midnights, as datetime.strptime(text,
\* "%Y-%m-%d") of scripts/train.py gives them
Midnights ==
    /\ start_tod = 0
    /\ end_tod = 0

IdleExt == IdleConn /\ IdleTrain /\ IdleInla /\ IdleParse /\ Midnights

\* no assembler is running
IdleJoin ==
    /\ acall = "none"
    /\ temp_df = <<>>
    /\ sero_df = <<>>
    /\ elnino_df = <<>>
    /\ days_no_rain_df = <<>>
    /\ target_df = <<>>
    /\ population_df = <<>>
    /\ apc = "idle"
    /\ adf = <<>>

\* no call of upsert_dataframe_to_db is running
IdleStore ==
    /\ ucall = [fn |-> "none", df |-> <<>>, ddl_file |-> NoDdlFile]
    /\ db_table = {}
    /\ upc = "idle"
    /\ statements = <<>>
    /\ stmt_i = 0
    /\ executed = <<>>
    /\ to_sql_exc = NoException
    /\ ulog = <<>>
    /\ uerror = "none"

\* no call of get_time_since_switch is running
IdleSero ==
    /\ dengue_agg = {}
    /\ start_date = 0
    /\ end_date = 0
    /\ pc = "idle"
    /\ dom_strain_unaltered = <<>>
    /\ df = <<>>
    /\ i = 0
    /\ event = <<>>
    /\ dom = <<>>
    /\ switched = <<>>
    /\ counter = 0
    /\ time_since_switch = <<>>
    /\ result = <<>>
    /\ runs = 0
    /\ first_switched = <<>>
    /\ first_result = <<>>

InitClimate ==
    LET
        \* the tables a provider can read
        TableRows(D, col, f) == {[date |-> d] @@ (col :> f[d]) : d \in D}
        Lags == 0..MaxLag
        \* the windows and lags a provider is called with; 12 is the default window
        Windows == (-1..MaxWindow) \cup {12}
        Providers == {"get_temp_weekly", "get_elnino34_ssta_weekly", "get_days_no_rain"}
        RainValues == {0, 5}
        SstaValues == {-2, 1}
        \* values of temperature.dbt_max, elnino34.ssta (in tenths) and
        \* rainfall.rainfall_amt_total
        TempValues == {1, 4}
        \* the dates an elnino34 row can carry: the weekly series of
        \* scripts/injestion/nino34.py has one row per week, dated on a Wednesday
        \*   722 = 2020-12-23, 729 = 2020-12-30, 736 = 2021-01-06, 743 = 2021-01-13
        WeeklyDates == {722, 729, 736, 743}
        \* the dates a temperature or rainfall row can carry:
        \*   720 = 2020-12-21 (Mon, ISO 2020 week 52)  727 = 2020-12-28 (Mon, week 53)
        \*   734 = 2021-01-04 (Mon, ISO 2021 week 1)   736 = 2021-01-06 (Wed, week 1)
        \*   741 = 2021-01-11 (Mon, week 2)
        DailyDates == {720, 727, 734, 736, 741}
    IN
    /\ IdleSero
    /\ IdleJoin
    /\ IdleStore
    /\ IdleExt
    /\ db_up \in BOOLEAN
    /\ \E fn \in Providers, w \in Windows, l \in Lags :
          call = [fn |-> fn, window |-> w, lag |-> l]
    /\ \/ /\ call.fn = "get_temp_weekly"
          /\ \E D \in SUBSET DailyDates : \E f \in [D -> TempValues] :
                src_table = TableRows(D, "dbt_max", f)
       \/ /\ call.fn = "get_elnino34_ssta_weekly"
          /\ \E D \in SUBSET WeeklyDates : \E f \in [D -> SstaValues] :
                src_table = TableRows(D, "ssta", f)
       \/ /\ call.fn = "get_days_no_rain"
          /\ \E D \in SUBSET DailyDates : \E f \in [D -> RainValues] :
                src_table = TableRows(D, "rainfall_amt_total", f)
    /\ cpc = "validate"
    /\ queries = 0
    /\ ctes = NoCtes
    /\ cdf = NoFrame
    /\ creturn = NoReturn
    /\ cerror = "none"

NextClimate ==
    \/ TempValidate \/ TempQuery \/ TempReturn
    \/ NinoValidate \/ NinoQuery \/ NinoReturn
    \/ RainValidate \/ RainQuery \/ RainReturn

vars == <<seroVars, rerunVars, climateVars, joinVars, storeVars, extVars>>

Init == InitSero /\ IdleClimate /\ db_up = TRUE /\ IdleJoin /\ IdleStore /\ IdleExt

Next == NextSero

Spec == Init /\ [][Next]_vars

SpecClimate == InitClimate /\ [][NextClimate]_vars

\* repeated calls of get_time_since_switch over the whole table
InitRerun == Init /\ start_date = 731

SpecRerun == InitRerun /\ [][NextRerun]_vars

InitRange ==
    LET
        \* get_time_since_switch called with a range that has rows before it, at
        \* its ends and after it; both datetimes are midnights or both are noons
        TimesOfDay == {0, 12}
    IN
    /\ \E D \in DateSubsets :
         \E f \in [D -> [StrainNames -> Counts]] : dengue_agg = DengueAggRows(D, f)
    /\ start_date = 734
    /\ end_date = 741
    /\ \E tod \in TimesOfDay : start_tod = tod /\ end_tod = tod
    /\ pc = "query"
    /\ dom_strain_unaltered = <<>>
    /\ df = <<>>
    /\ i = 0
    /\ event = <<>>
    /\ dom = <<>>
    /\ switched = <<>>
    /\ counter = 0
    /\ time_since_switch = <<>>
    /\ result = <<>>
    /\ runs = 1
    /\ first_switched = <<>>
    /\ first_result = <<>>
    /\ IdleClimate /\ db_up = TRUE /\ IdleJoin /\ IdleStore
    /\ IdleConn /\ IdleTrain /\ IdleInla /\ IdleParse

SpecRange == InitRange /\ [][NextSero]_vars

InitDetector ==
    LET
        \* the two loops of get_time_since_switch on any DataFrame of dominant_strain_edited
        \* arrays, sorted or not and with or without repeated strains
        StrainArrays == {<<1>>, <<2>>, <<1, 2>>, <<2, 1>>, <<1, 1>>}
    IN
    /\ IdleClimate /\ db_up = TRUE /\ IdleJoin /\ IdleStore /\ IdleExt
    /\ dengue_agg = {}
    /\ start_date = 0
    /\ end_date = 0
    /\ dom_strain_unaltered = <<>>
    /\ \E n \in 0..MaxRows : \E arrays \in [1..n -> StrainArrays] :
          df = [k \in 1..n |-> [year |-> 2021, week |-> k,
                                dominant_strain_edited |-> arrays[k]]]
    /\ event = <<>>
    /\ dom = EmptyDom
    /\ i = 1
    /\ pc = "switch_loop"
    /\ switched = <<>>
    /\ counter = 0
    /\ time_since_switch = <<>>
    /\ result = <<>>
    /\ runs = 1
    /\ first_switched = <<>>
    /\ first_result = <<>>

NextDetector == SwitchStep \/ SwitchDone \/ CounterStep \/ ReturnResult

SpecDetector == InitDetector /\ [][NextDetector]_vars

\* the frames an assembler joins: two consecutive ISO weeks in the primary
\* series, and the key serology gives 2021-01-01
K1 == <<2020, 53>>

K2 == <<2021, 1>>

KBad == <<2021, 53>>

\* the longest serology and target frames
MaxJoinRows == 2

InitAssemble ==
    LET
        PopulationFrames == {<<>>, <<[index |-> <<2020>>, value |-> 56],
                                    [index |-> <<2021>>, value |-> 57]>>}
        TargetRows == {[index |-> K1, value |-> 5], [index |-> K1, value |-> 8],
                       [index |-> K2, value |-> 5]}
        \* get_time_since_switch and get_target return one row per row they read
        SeroRows == {[index |-> K1, value |-> 7], [index |-> K2, value |-> 14],
                     [index |-> KBad, value |-> 0]}
        \* frames with one row per week, for any set of the two weeks (the primary
        \* series is not empty, the El Nino series runs up to the later week and the
        \* rainfall series starts at the earlier one)
        WeeklyFrames(v) ==
            { SelectSeq(<<[index |-> K1, value |-> v], [index |-> K2, value |-> v + 1]>>,
                        LAMBDA r : r.index \in X) : X \in SUBSET {K1, K2} }
    IN
    /\ IdleSero
    /\ IdleClimate
    /\ db_up = TRUE
    /\ IdleStore
    /\ IdleExt
    /\ acall \in {"get", "get_train_test_data"}
    /\ temp_df \in WeeklyFrames(30) \ {<<>>}
    /\ sero_df \in SeqsUpTo(SeroRows, MaxJoinRows)
    /\ elnino_df \in {f \in WeeklyFrames(-2) \ {<<>>} : f[Len(f)].index = K2}
    /\ days_no_rain_df \in {f \in WeeklyFrames(0) \ {<<>>} : f[1].index = K1}
    /\ target_df \in SeqsUpTo(TargetRows, MaxJoinRows)
    /\ population_df \in IF acall = "get" THEN PopulationFrames ELSE {<<>>}
    /\ apc = "join"
    /\ adf = <<>>

SpecAssemble == InitAssemble /\ [][NextAssemble]_vars

\* the frames handed to the storage gateway and the DDL files it reads
MaxInsertRows == 2

MaxDdlLen == 3

\* the rows already in the table
StoredTables == {{}, {[key |-> 1, val |-> "x"]}}

InitStore ==
    LET
        DdlTokens == {"CREATE", "BAD", " ", ";"}
        InsertRows == [key : {1, 2}, val : {"NULL", "x"}]
        DdlFile(text) == [none |-> FALSE, missing |-> FALSE, text |-> text]
        MissingDdlFile == [none |-> FALSE, missing |-> TRUE, text |-> <<>>]
    IN
    /\ IdleSero
    /\ IdleClimate
    /\ IdleJoin
    /\ IdleExt
    /\ db_up \in BOOLEAN
    /\ \E fn \in {"upsert_dataframe_to_db", "insert_data"} :
       \E rows \in SeqsUpTo(InsertRows, MaxInsertRows) :
       \E ddl \in IF fn = "insert_data" THEN {NoDdlFile}
                   ELSE {NoDdlFile, MissingDdlFile}
                            \cup {DdlFile(t) : t \in SeqsUpTo(DdlTokens, MaxDdlLen)} :
          /\ ucall = [fn |-> fn, df |-> rows, ddl_file |-> ddl]
          /\ upc = IF fn = "insert_data" THEN "insert" ELSE "start"
    /\ db_table \in StoredTables
    /\ statements = <<>>
    /\ stmt_i = 0
    /\ executed = <<>>
    /\ to_sql_exc = NoException
    /\ ulog = <<>>
    /\ uerror = "none"

SpecStore == InitStore /\ [][NextStore]_vars

InitConn ==
    /\ IdleSero
    /\ IdleClimate
    /\ IdleJoin
    /\ IdleStore
    /\ IdleTrain
    /\ IdleInla
    /\ IdleParse
    /\ Midnights
    /\ db_up \in BOOLEAN
    /\ wpc = "enter"
    /\ conn = "None"
    /\ body = [uses_db |-> FALSE, fails |-> FALSE]
    /\ open_conns = 0
    /\ uses = 0
    /\ printed = <<>>
    /\ wraised = FALSE

SpecConn == InitConn /\ [][NextConn]_vars

InitTrain ==
    /\ IdleSero
    /\ IdleClimate
    /\ IdleJoin
    /\ IdleStore
    /\ IdleConn
    /\ IdleInla
    /\ IdleParse
    /\ Midnights
    /\ db_up = TRUE
    /\ tclass \in {"NationalAnalysisTrainData", "TrainData subclass"}
    /\ config \in [dataset : {"inla_model_ds", "site_release"},
                    start_time : {"2020-01-01", "national_analysis"},
                    end_time : {"2023-12-31", "temperature"}]
    /\ tablename = "none"
    /\ self_data = [set |-> FALSE, rows |-> <<>>]
    /\ tpc = "new"
    /\ gateway_calls = <<>>
    /\ terror = "none"

SpecTrain == InitTrain /\ [][NextTrain]_vars

\* before INLAForecastModel_V1(config_file) is constructed; the database
\* may be up or down
InitInla ==
    /\ IdleSero
    /\ IdleClimate
    /\ IdleJoin
    /\ IdleStore
    /\ IdleConn
    /\ IdleTrain
    /\ IdleInla
    /\ IdleParse
    /\ Midnights
    /\ db_up \in BOOLEAN

SpecInla == InitInla /\ [][NextInla]_vars

\* a call parse_date_with_filename(date_str, filename) is about to be made
InitParse ==
    LET
        \* the file names: weekly files, a whole year, a single day, a range with
        \* text around it, a name without a range, a name whose first group has
        \* seven digits, and names whose groups are no calendar dates
        FileNames ==
            LET
                \* the range part of a file name, from eight-digit numbers
                RangeText(s, t) == Pad(s, 8) \o <<"-">> \o Pad(t, 8)
            IN
            {RangeText(20230109, 20230115),
             RangeText(20230101, 20231231),
             RangeText(20230901, 20230901),
             RangeText(20230201, 20230213),
             <<"r", "_">> \o RangeText(20230109, 20230115) \o <<".", "c", "s", "v">>,
             <<"r", ".", "c", "s", "v">>,
             Pad(2023010, 7) \o <<"-">> \o Pad(20230115, 8),
             RangeText(20230109, 20230230),
             RangeText(20231345, 20231399)}
        DateTexts ==
            LET
                \* the texts of a date column: two fields of one or two digits and a
                \* year, a text in another layout, a two-digit year
                DateFields == {1, 2, 9, 13, 29, 31}
            IN
            {Pad(a, 2) \o <<"/">> \o Pad(b, 2) \o <<"/">> \o Pad(2023, 4) :
                a \in DateFields, b \in DateFields}
            \cup {Pad(9, 1) \o <<"/">> \o Pad(1, 1) \o <<"/">> \o Pad(2023, 4),
                  Pad(2023, 4) \o <<"-">> \o Pad(1, 2) \o <<"-">> \o Pad(9, 2),
                  Pad(9, 2) \o <<"/">> \o Pad(1, 2) \o <<"/">> \o Pad(23, 2)}
    IN
    /\ IdleSero
    /\ IdleClimate
    /\ IdleJoin
    /\ IdleStore
    /\ IdleConn
    /\ IdleTrain
    /\ IdleInla
    /\ Midnights
    /\ db_up = TRUE
    /\ date_str \in DateTexts
    /\ filename \in FileNames
    /\ ppc = "call"
    /\ presult = <<>>

SpecParse == InitParse /\ [][NextParse]_vars

(***************************************************************************)
(* Properties of the switch detector.                                      *)
(***************************************************************************)
\* the resolved dominant set of record k of the query result
Resolved(k) == Range(df[k].dominant_strain_edited)

\* the set of strains tied for the maximum in the week of record k
Curr(k) == Range(dom_strain_unaltered[k].dominant_strain_curr_week)

\* the days_since_switch value returned for record k
Days(k) == result[k].days_since_switch

\* index of the most recent switch record at or before k (0 if there is none)
LastSwitch(k) ==
    LET S == {j \in 1..k : switched[j]}
    IN  IF S = {} THEN 0 ELSE CHOOSE j \in S : \A m \in S : m <= j

\* Monday-based index of the week a date falls in
WeekIndex(d) == (d + 1) \div 7

\* C1: in the returned table, for every record k after the first:
\* days_since_switch[k] = days_since_switch[k-1] + 7 when the resolved
\* dominant set equals that of record k-1, and 0 otherwise.
C1_SwitchRecurrence ==
    pc = "done" =>
        \A k \in 2..Len(df) :
            IF Resolved(k) = Resolved(k - 1)
            THEN Days(k) = Days(k - 1) + 7
            ELSE Days(k) = 0

C1_Witness ==
    /\ pc = "done"
    /\ Len(df) = 4
    /\ Resolved(1) = Resolved(2)
    /\ Resolved(2) = Resolved(3)
    /\ Resolved(3) # Resolved(4)
    /\ Days(3) = 14
    /\ Days(4) = 0

\* C2: the first record of a non-empty sequence is flagged as a switch and
\* its days_since_switch is 0, whatever its dominant set is.
C2_FirstRecordIsSwitch ==
    (pc \in {"counter_loop", "done"} /\ Len(df) >= 1) =>
        /\ switched[1] = TRUE
        /\ (pc = "done" => Days(1) = 0)

C2_Witness ==
    /\ pc = "done"
    /\ Len(df) >= 1
    /\ Resolved(1) = {1}
    /\ switched[1] = TRUE
    /\ Days(1) = 0

\* C3: every week's tie-break takes as prev the RESOLVED dominant set of the
\* preceding week: resolved[w] = prev_resolved when |curr[w]| > 1,
\* |prev_resolved| = 1 and prev_resolved is a subset of curr[w], and
\* resolved[w] = curr[w] otherwise.
C3_TieBreakUsesResolvedPrev ==
    pc # "query" =>
        \A k \in 1..Len(df) :
            LET prev_resolved == IF k = 1 THEN {} ELSE Resolved(k - 1)
            IN  Resolved(k) =
                    IF /\ Cardinality(Curr(k)) > 1
                       /\ Cardinality(prev_resolved) = 1
                       /\ prev_resolved \subseteq Curr(k)
                    THEN prev_resolved
                    ELSE Curr(k)

\* C4: single-step tie-break law: for a tied curr and a singleton prev the
\* resolved set is prev when prev's element is in curr and curr when it is
\* not; a curr of exactly one element is resolved to itself whatever prev is.
C4_TieBreakLaw ==
    pc # "query" =>
        \A k \in 1..Len(df) :
            LET cw == dom_strain_unaltered[k].dominant_strain_curr_week
                pw == dom_strain_unaltered[k].dominant_strain_prev_week
                ed == df[k].dominant_strain_edited
            IN  /\ (Len(cw) > 1 /\ Len(pw) = 1 /\ pw[1] \in Range(cw)) => ed = pw
                /\ (Len(cw) > 1 /\ Len(pw) = 1 /\ pw[1] \notin Range(cw)) => ed = cw
                /\ Len(cw) = 1 => ed = cw

C4_Witness ==
    /\ pc = "done"
    /\ \E k \in 1..Len(df) :
          /\ dom_strain_unaltered[k].dominant_strain_curr_week = <<1, 2>>
          /\ dom_strain_unaltered[k].dominant_strain_prev_week = <<1>>
          /\ df[k].dominant_strain_edited = <<1>>
    /\ \E k \in 1..Len(df) :
          /\ dom_strain_unaltered[k].dominant_strain_curr_week = <<1, 2>>
          /\ dom_strain_unaltered[k].dominant_strain_prev_week = <<3>>
          /\ df[k].dominant_strain_edited = <<1, 2>>

\* C5: closed form of the counter: days_since_switch[k] = 7 * (k - s) with s
\* the most recent switch record at or before k; inside the loop the counter
\* is the value just emitted plus 7.
C5_ClosedForm ==
    /\ pc = "done" => \A k \in 1..Len(df) : Days(k) = 7 * (k - LastSwitch(k))
    /\ (pc = "counter_loop" /\ time_since_switch # <<>>) =>
           counter = time_since_switch[Len(time_since_switch)] + 7

C5_Witness ==
    /\ pc = "done"
    /\ Len(df) = 4
    /\ Resolved(1) = {1} /\ Resolved(2) = {1}
    /\ Resolved(3) = {2} /\ Resolved(4) = {2}
    /\ Days(1) = 0 /\ Days(2) = 7 /\ Days(3) = 0 /\ Days(4) = 7

\* C6: days_since_switch of every observation is the number of elapsed days
\* (7 x the number of weeks) between the most recent switch record at or
\* before it and the observation, also when weeks are missing.
C6_ElapsedDays ==
    pc = "done" =>
        \A k \in 1..Len(df) :
            LastSwitch(k) >= 1 =>
                Days(k) = 7 * (WeekIndex(dom_strain_unaltered[k].date)
                               - WeekIndex(dom_strain_unaltered[LastSwitch(k)].date))

\* the (year, week) keys of the query result are strictly increasing
KeyLess(a, b) == a.year < b.year \/ (a.year = b.year /\ a.week < b.week)

StrictlyOrdered(rows) == \A k \in 2..Len(rows) : KeyLess(rows[k - 1], rows[k])

\* C7: a sequence that is not strictly increasing in (year, week), or holds
\* a duplicate key, is rejected: no days_since_switch table is returned for it.
C7_InvalidSequenceRejected == pc = "done" => StrictlyOrdered(df)

\* C8: a first week in range with a multi-strain tie resolves to the whole
\* tied set, is a switch and emits 0; a next week with a single dominant
\* strain out of that tied set is a switch again and emits 0.
C8_FirstWeekTie ==
    (pc = "done" /\ Len(df) >= 1 /\ Cardinality(Curr(1)) > 1) =>
        /\ Resolved(1) = Curr(1)
        /\ switched[1] = TRUE
        /\ Days(1) = 0
        /\ (Len(df) >= 2 /\ Cardinality(Curr(2)) = 1 /\ Curr(2) \subseteq Curr(1)) =>
               /\ Resolved(2) = Curr(2)
               /\ switched[2] = TRUE
               /\ Days(2) = 0

C8_Witness ==
    /\ pc = "done"
    /\ Len(df) = 2
    /\ Curr(1) = {1, 2} /\ Curr(2) = {1}
    /\ Days(1) = 0 /\ Days(2) = 0

(***************************************************************************)
(* Properties of the rolling-window feature providers.                     *)
(***************************************************************************)
\* C9: a rolling-window provider called with window < 1 raises the
\* invalid-window error at once: no query reaches the storage gateway, no
\* frame is fetched and nothing is returned.
C9_InvalidWindowRejected ==
    (call.window < 1 /\ cpc # "validate" /\ cpc # "idle") =>
        /\ cpc = "raised"
        /\ cerror = "ValueError"
        /\ queries = 0
        /\ cdf = NoFrame
        /\ creturn = NoReturn

C9_Witness ==
    /\ call.fn = "get_days_no_rain"
    /\ call.window = 0
    /\ src_table # {}
    /\ cpc = "raised"
    /\ cerror = "ValueError"
    /\ queries = 0

\* C10: the rolling mean of get_temp_weekly and get_elnino34_ssta_weekly at
\* week k (1-based) is the mean of exactly the values of weeks
\* max(1, k - W + 1)..k of the ordered series: weeks before the start of the
\* series are left out, not counted as zeros, so the first value is its own
\* rolling mean.
C10_PartialLeadingWindow ==
    (call.fn \in {"get_temp_weekly", "get_elnino34_ssta_weekly"}
       /\ cpc \in {"fetched", "returned"}) =>
        /\ Len(ctes.aggregate) = Len(ctes.series)
        /\ \A k \in 1..Len(ctes.series) :
              LET lo  == Max2(1, k - call.window + 1)
                  n   == k - lo + 1
                  sum == FracSum(SubSeq(ctes.series, lo, k))
                  avg == ctes.aggregate[k]
              IN  /\ avg[1] * n * sum[2] = sum[1] * avg[2]
                  /\ k = 1 => avg = ctes.series[1]
        /\ (cpc = "returned" /\ call.lag = 0) =>
              \A k \in 1..Len(ctes.series) :
                  creturn.rows[k].value = ctes.aggregate[k]

C10_Witness ==
    /\ call.fn = "get_temp_weekly"
    /\ call.window = 3
    /\ call.lag = 0
    /\ cpc = "returned"
    /\ Len(ctes.series) = 4
    /\ ctes.series[1] # <<0, 1>>
    /\ creturn.rows[1].value = ctes.series[1]
    /\ creturn.rows[2].value = FracDivInt(FracAdd(ctes.series[1], ctes.series[2]), 2)

\* C11: for every lag L >= 0 the returned series has one value per week of
\* the rolling aggregate, in the same order; the value of week k (1-based)
\* is the rolling aggregate of week k - L when k > L and 0 when k <= L.
C11_LagShift ==
    LET
        \* the value LAG fills in before the first row, in the provider's value type
        ZeroOf(fn) == IF fn = "get_days_no_rain" THEN 0 ELSE <<0, 1>>
    IN
    cpc = "returned" =>
        /\ Len(creturn.rows) = Len(ctes.aggregate)
        /\ \A k \in 1..Len(creturn.rows) :
              creturn.rows[k].value =
                  IF k > call.lag THEN ctes.aggregate[k - call.lag]
                  ELSE ZeroOf(call.fn)
        /\ \A k \in 2..Len(creturn.rows) :
              \/ creturn.rows[k - 1].year < creturn.rows[k].year
              \/ /\ creturn.rows[k - 1].year = creturn.rows[k].year
                 /\ creturn.rows[k - 1].eweek < creturn.rows[k].eweek

C11_Witness ==
    /\ cpc = "returned"
    /\ call.fn = "get_temp_weekly"
    /\ call.lag = 2
    /\ Len(creturn.rows) = 4
    /\ ctes.aggregate[1] # <<0, 1>>
    /\ creturn.rows[1].value = <<0, 1>>
    /\ creturn.rows[2].value = <<0, 1>>
    /\ creturn.rows[3].value = ctes.aggregate[1]

\* the weekly series with its all-time mean subtracted from every value
MeanCentered(weekly, series) ==
    /\ Len(series) = Len(weekly)
    /\ \A k \in 1..Len(weekly) : series[k] = FracSub(weekly[k], FracAvg(weekly))

\* C12 as stated: the series the rolling aggregate is taken of is the
\* mean-centered weekly series in get_temp_weekly and in
\* get_elnino34_ssta_weekly, and the weekly series itself in get_days_no_rain.
C12_CenteringTempAndSsta ==
    (cpc = "fetched" /\ ~cdf.none) =>
        IF call.fn = "get_days_no_rain"
        THEN ctes.series = ctes.weekly
        ELSE MeanCentered(ctes.weekly, ctes.series)

\* C12 amended: mean-centering applies to the temperature series only; the
\* rolling aggregate of get_elnino34_ssta_weekly is taken of the ssta values
\* as stored and that of get_days_no_rain of the weekly dry-day counts.
C12_CenteringTempOnly ==
    (cpc = "fetched" /\ ~cdf.none) =>
        IF call.fn = "get_temp_weekly"
        THEN MeanCentered(ctes.weekly, ctes.series)
        ELSE ctes.series = ctes.weekly

C12_Witness ==
    /\ cpc = "fetched"
    /\ ~cdf.none
    /\ call.fn = "get_temp_weekly"
    /\ Len(ctes.weekly) = 3
    /\ ctes.weekly[1] # ctes.weekly[2]
    /\ ctes.series[1] # ctes.weekly[1]
    /\ FracSum(ctes.series) = <<0, 1>>

\* C18: a failed query reaches the caller of the provider as the raised
\* storage error: download_dataframe_from_db never returns without a
\* DataFrame, and the only errors a provider raises are its own ValueError
\* and the error of the failed query.
C18_DownloadFailurePropagates ==
    /\ cpc = "fetched" => ~cdf.none
    /\ cpc = "raised" => cerror \in {"ValueError", "DataUnavailableError"}

\* C16: every joined series keys a row by (ISO week-year, ISO week) of its
\* date; for the days_since_switch series returned by get_time_since_switch,
\* the key of record k is the ISO week-year and ISO week of the date of
\* record k, and records in different ISO weeks have different keys.
C16_SerologyKeyIsIsoWeek ==
    pc = "done" =>
        /\ \A k \in 1..Len(result) :
              /\ result[k].year = IsoYear(dom_strain_unaltered[k].date)
              /\ result[k].week = CastInt(ToCharIW(dom_strain_unaltered[k].date))
        /\ \A j, k \in 1..Len(result) :
              (result[j].year = result[k].year /\ result[j].week = result[k].week)
                  => WeekIndex(dom_strain_unaltered[j].date)
                         = WeekIndex(dom_strain_unaltered[k].date)

\* C17: a second call of get_time_since_switch on the same table returns the
\* switch flags and days_since_switch values of the first, and each loop of
\* the second call starts from freshly assigned locals, not from what the
\* first call left behind.
C17_DetectorIsPure ==
    /\ (runs >= 2 /\ pc = "done") =>
           /\ switched = first_switched
           /\ result = first_result
    /\ (pc = "switch_loop" /\ i = 1) => (dom = EmptyDom /\ event = <<>>)
    /\ (pc = "counter_loop" /\ i = 1) => (counter = 0 /\ time_since_switch = <<>>)

C17_Witness ==
    /\ runs = 2
    /\ pc = "done"
    /\ Len(result) = 4
    /\ result = first_result
    /\ switched[3] /\ ~switched[4]
    /\ Days(4) = 7
    /\ dom # EmptyDom

(***************************************************************************)
(* Properties of the assemblers.                                           *)
(***************************************************************************)
\* the (year, week) key of an assembled row
RowKey(row) == <<row.year, row.eweek>>

\* the keys of a provider frame
Keys(frame) == {frame[k].index : k \in 1..Len(frame)}

\* the values a provider frame holds for a key
ValuesAt(frame, key) == {frame[k].value : k \in {j \in 1..Len(frame) : frame[j].index = key}}

\* number of rows of the assembled frame equal to r
Count(frame, r) == Cardinality({k \in 1..Len(frame) : frame[k] = r})

\* C13: the assembled table has exactly one row per (year, week) of the
\* temperature series: every temperature week appears once, and no other
\* key appears, whatever the serology, El Nino, rainfall and target frames
\* hold.
C13_OneRowPerTempWeek ==
    apc = "done" =>
        /\ \A key \in Keys(temp_df) :
              Cardinality({k \in 1..Len(adf) : RowKey(adf[k]) = key}) = 1
        /\ \A k \in 1..Len(adf) : RowKey(adf[k]) \in Keys(temp_df)

\* the cell a joined column must hold in a row: a value of the frame at the
\* row's key, or what fill stands for when the frame has no row at that key
JoinedCellOk(cell, frame, key, fill) ==
    IF key \in Keys(frame)
    THEN ~cell.nan /\ cell.v \in ValuesAt(frame, key)
    ELSE cell = fill

\* C14: in the assembled table a row without a serology match has
\* days_since_switch = 0; a row without a match in the El Nino, rainfall,
\* target or population frame keeps the missing marker in that column; a
\* row with a match holds a value the matched frame has for its key.
C14_FillAsymmetry ==
    apc = "done" =>
        \A k \in 1..Len(adf) :
            LET row == adf[k]
            IN  /\ JoinedCellOk(row[SeroColumn], sero_df, RowKey(row), Cell(0))
                /\ JoinedCellOk(row[NinoColumn], elnino_df, RowKey(row), NaN)
                /\ JoinedCellOk(row[RainColumn], days_no_rain_df, RowKey(row), NaN)
                /\ JoinedCellOk(row["cases"], target_df, RowKey(row), NaN)
                /\ acall = "get" =>
                      JoinedCellOk(row["population"], population_df, <<row.year>>, NaN)

C14_Witness ==
    /\ apc = "done"
    /\ acall = "get"
    /\ Len(adf) = 2
    /\ adf[1][SeroColumn] = Cell(0)
    /\ K1 \notin Keys(sero_df)
    /\ adf[1][NinoColumn] = NaN
    /\ adf[1]["cases"] = NaN
    /\ adf[1]["population"] = NaN
    /\ adf[2][SeroColumn] = Cell(14)
    /\ adf[2][RainColumn] = NaN
    /\ adf[2][NinoColumn] = Cell(-1)

\* the orders the four frames can be joined in
JoinOrders ==
    {p \in [1..4 -> {JoinOrder[k] : k \in 1..4}] : \A a, b \in 1..4 : p[a] = p[b] => a = b}

\* two frames hold the same rows, each the same number of times
SameRows(a, b) ==
    /\ Len(a) = Len(b)
    /\ \A k \in 1..Len(a) : Count(a, a[k]) = Count(b, a[k])

\* the joins have just run
JustJoined == apc = IF acall = "get" THEN "date" ELSE "fill"

\* C15: joining the serology, El Nino, rainfall and target frames onto the
\* temperature frame in any order gives the rows the assembler built, with
\* the same value in every column of every row.
C15_JoinOrderIndependent ==
    JustJoined => \A p \in JoinOrders : SameRows(JoinAll(acall, p), adf)

C15_Witness ==
    /\ JustJoined
    /\ Len(temp_df) = 2
    /\ sero_df = <<[index |-> KBad, value |-> 0], [index |-> K1, value |-> 7]>>
    /\ target_df = <<[index |-> K1, value |-> 5], [index |-> K1, value |-> 8]>>
    /\ Len(elnino_df) = 1
    /\ Len(adf) = 3
    /\ adf[3][SeroColumn] = NaN
    /\ adf[2]["cases"] = Cell(8)

(***************************************************************************)
(* Properties of the storage gateway.                                      *)
(***************************************************************************)
\* insert_data has run
Inserted == upc \in {"returned", "raised"} /\ uerror # "FileNotFoundError"

\* C19: when the insert hits a duplicate key, the violation is logged, no
\* row is stored, and the call returns to its caller with no exception.
C19_DuplicateKeyNotFatal ==
    (Inserted /\ to_sql_exc.orig = "psycopg2.errors.UniqueViolation") =>
        /\ upc = "returned"
        /\ uerror = "none"
        /\ ulog[Len(ulog)] \in {"Duplicate entry found while inserting into %s",
                                "Failed to insert data"}
        /\ db_table \in StoredTables

C19_Witness ==
    /\ upc = "returned"
    /\ ucall.fn = "upsert_dataframe_to_db"
    /\ db_up
    /\ ucall.df = <<[key |-> 2, val |-> "x"], [key |-> 1, val |-> "x"]>>
    /\ db_table = {[key |-> 1, val |-> "x"]}
    /\ to_sql_exc.orig = "psycopg2.errors.UniqueViolation"
    /\ Len(executed) = 2

\* C20: when the database cannot be reached, or the insert violates a
\* constraint other than the unique key, upsert_dataframe_to_db ends with a
\* storage error raised to its caller and does not return normally.
C20_StorageErrorReachesCaller ==
    (/\ Inserted
     /\ ucall.fn = "upsert_dataframe_to_db"
     /\ to_sql_exc.orig \in {"psycopg2.OperationalError",
                              "psycopg2.errors.NotNullViolation"}) =>
        /\ upc = "raised"
        /\ uerror = to_sql_exc.cls

(***************************************************************************)
(* The detector against the single forward fold.                           *)
(***************************************************************************)
\* the fold carrying (previous_dominant, counter) from record k on: compare
\* as sets, reset on a switch, emit, then advance the counter by 7
RECURSIVE FoldFrom(_, _, _)
FoldFrom(k, previous_dominant, cnt) ==
    IF k > Len(df) THEN <<>>
    ELSE LET dominant_strains == Range(df[k].dominant_strain_edited)
             emitted == IF dominant_strains # previous_dominant THEN 0 ELSE cnt
         IN  <<emitted>> \o FoldFrom(k + 1, dominant_strains, emitted + 7)

\* C21: the two loops of get_time_since_switch give every record the
\* days_since_switch value the single fold over (previous_dominant, counter),
\* started from ({}, 0), gives it.
C21_TwoPassEqualsFold ==
    pc = "done" =>
        /\ Len(result) = Len(df)
        /\ \A k \in 1..Len(df) : Days(k) = FoldFrom(1, {}, 0)[k]

C21_Witness ==
    /\ pc = "done"
    /\ Len(df) = 4
    /\ Days(1) = 0 /\ Days(2) = 7 /\ Days(3) = 0 /\ Days(4) = 7
    /\ FoldFrom(1, {}, 0) = <<0, 7, 0, 7>>

\* C22: record k > 1 is flagged as a switch exactly when its resolved
\* dominant set differs, as a set, from that of record k - 1; the order of
\* the strains in the arrays and repeated strains make no difference.
C22_SwitchIsSetInequality ==
    pc \in {"counter_loop", "done"} =>
        \A k \in 2..Len(df) : switched[k] <=> (Resolved(k) # Resolved(k - 1))

C22_Witness ==
    /\ pc = "done"
    /\ Len(df) = 4
    /\ df[1].dominant_strain_edited = <<1, 2>>
    /\ df[2].dominant_strain_edited = <<2, 1>>
    /\ df[3].dominant_strain_edited = <<1>>
    /\ df[4].dominant_strain_edited = <<1, 1>>
    /\ switched = <<TRUE, FALSE, TRUE, FALSE>>

(***************************************************************************)
(* Properties of the rainfall provider.                                    *)
(***************************************************************************)
\* C23: the dry-day rolling total of week k is the sum of the weekly counts
\* of the W weeks ending at k in the whole ordered series, weeks of the
\* previous year included; the window is partial only at the start of the
\* series.
C23_RollingTotalSpansYears ==
    (cpc = "fetched" /\ call.fn = "get_days_no_rain" /\ ~cdf.none) =>
        \A k \in 1..Len(ctes.weekly) :
            ctes.aggregate[k] =
                IntSum(SubSeq(ctes.weekly, Max2(1, k - call.window + 1), k))

\* C24: for every window W >= 1 and lag L >= 0 the query of get_days_no_rain
\* is well-formed: while the database answers, the call does not fail, and
\* it returns the column days_no_rain_<W>_wk_total_<L>.
C24_AnyWindowWellFormed ==
    (call.fn = "get_days_no_rain" /\ db_up /\ call.window >= 1) =>
        /\ cpc # "raised"
        /\ cpc = "fetched" => ~cdf.none
        /\ cpc = "returned" =>
              creturn.name = <<"days_no_rain", call.window, "wk_total", call.lag>>

(***************************************************************************)
(* Properties of postgres_connection.                                      *)
(***************************************************************************)
\* C25: once a with postgres_connection() block has ended, normally or by
\* an error of its body, the connection opened for it is closed: no
\* connection is open after any sequence of blocks.
C25_ConnectionReleased ==
    wpc = "after" => open_conns = 0

(***************************************************************************)
(* Properties of the DDL step of upsert_dataframe_to_db.                   *)
(***************************************************************************)
\* the non-empty statements of a DDL text, stripped, in file order
RECURSIVE NonEmptyStatements(_)
NonEmptyStatements(chunks) ==
    IF chunks = <<>> THEN <<>>
    ELSE (IF Strip(Head(chunks)) = <<>> THEN <<>> ELSE <<Strip(Head(chunks))>>)
             \o NonEmptyStatements(Tail(chunks))

\* C26: with a DDL file, the non-empty statements are executed in file order
\* before the insert, and a statement that fails makes the call raise to
\* its caller; with ddl_file = None no statement is executed.
C26_DdlThenInsert ==
    /\ (ucall.fn = "upsert_dataframe_to_db" /\ ucall.ddl_file.none) => executed = <<>>
    /\ (/\ ucall.fn = "upsert_dataframe_to_db"
        /\ ~ucall.ddl_file.none /\ ~ucall.ddl_file.missing
        /\ db_up
        /\ upc \in {"insert", "returned", "raised"}) =>
           LET stmts == NonEmptyStatements(Split(ucall.ddl_file.text))
           IN  IF \E k \in 1..Len(stmts) : StatementFails(stmts[k])
               THEN upc = "raised"
               ELSE executed = stmts /\ upc # "raised"

(***************************************************************************)
(* Properties of TrainData.                                                *)
(***************************************************************************)
\* C27: once get() has stored a table in self.data, upload_to_dwh() enters
\* the storage gateway exactly once, with that table and the table name
\* config["dataset"], and raises nothing.
C27_UploadHandsDataToGateway ==
    (tpc \in {"uploaded", "upload_raised"} /\ self_data.set) =>
        /\ tpc = "uploaded"
        /\ gateway_calls = <<[df |-> self_data.rows, table_name |-> config.dataset]>>

(***************************************************************************)
(* Properties of the INLA model wrapper.                                   *)
(***************************************************************************)
\* fit() was called after transform() on the object
FitRanAfterTransform ==
    \E a \in 1..Len(m_calls) : \E b \in 1..Len(m_calls) :
        a < b /\ m_calls[a] = "transform" /\ m_calls[b] = "fit"

\* C28: once fit() ran after transform(), get_fitted_values returns the
\* fitted-values table and get_model_metrics returns a metrics table.
C28_FittedModelReturnsTables ==
    (m_calls # <<>> /\ FitRanAfterTransform) =>
        /\ m_calls[Len(m_calls)] = "get_fitted_values" => m_return = "preds"
        /\ m_calls[Len(m_calls)] = "get_model_metrics" => m_return = "metrics_df"

(***************************************************************************)
(* Properties of parse_date_with_filename.                                 *)
(***************************************************************************)
\* a text in YYYY-MM-DD form
IsIsoText(t) ==
    /\ Len(t) = 10
    /\ t[5] = "-" /\ t[8] = "-"
    /\ \A k \in (1..10) \ {5, 8} : IsDigit(t[k])

\* the eight-digit number of the day a YYYY-MM-DD text names
IsoNumber(t) ==
    Num(SubSeq(t, 1, 4) \o SubSeq(t, 6, 7) \o SubSeq(t, 9, 10))

\* C29: the call returns NaT or a YYYY-MM-DD date between the two dates of
\* the file name, bounds included.
C29_NaTOrDateInRange ==
    ppc = "done" =>
        \/ presult = <<"NaT">>
        \/ /\ IsIsoText(presult)
           /\ LET m == re_search(filename)
              IN /\ m.found
                 /\ Num(m.g1) <= IsoNumber(presult)
                 /\ IsoNumber(presult) <= Num(m.g2)

(***************************************************************************)
(* Properties of the date range of get_time_since_switch.                  *)
(***************************************************************************)
\* the query over a table, with a range that holds every row of it
QueryOverAll(tbl) == SwitchQuery(dom_strain_unaltered_cte(tbl, 0, 1000))

\* the rows at or after the datetime start_date and before the datetime
\* end_date; a row is dated at midnight
RowsInArgumentRange ==
    {r \in dengue_agg : /\ 24 * start_date + start_tod <= 24 * r.date
                        /\ 24 * r.date < 24 * end_date + end_tod}

\* the rows from the day of start_date up to, not including, the day of
\* end_date
RowsInDayRange == {r \in dengue_agg : start_date <= r.date /\ r.date < end_date}

\* C30 as stated: the rows the query considers are those with
\* start_date <= d < end_date for the datetimes passed, and no other row
\* influences the DataFrame.
C30_RangeOfArguments ==
    pc # "query" => df = QueryOverAll(RowsInArgumentRange)

\* C30: the query considers only the rows from midnight of the day of
\* start_date up to, not including, midnight of the day of end_date; rows
\* at the end day or outside the range never influence the DataFrame, and
\* its first week is resolved with no previous week.
C30_HalfOpenDayRange ==
    pc # "query" =>
        /\ df = QueryOverAll(RowsInDayRange)
        /\ dom_strain_unaltered # <<>> =>
              /\ dom_strain_unaltered[1].prev_len = 0
              /\ df[1].dominant_strain_edited =
                     dom_strain_unaltered[1].dominant_strain_curr_week

\* a finished call on a table with rows before the range, at its first
\* day, at its end day and after it, the week before the range having a
\* single dominant strain and the first week inside it several
C30_Witness ==
    /\ pc = "done"
    /\ {731, 734, 741, 748} \subseteq {r.date : r \in dengue_agg}
    /\ start_tod = 12
    /\ df # <<>>
    /\ Len(df[1].dominant_strain_edited) > 1
    /\ Len(QueryOverAll(dengue_agg)[1].dominant_strain_edited) = 1

=============================================================================
